---------------------------- MODULE Spec2Model ----------------------------
(***************************************************************************)
(* A model of the GKR proof system of this repository: the multilinear     *)
(* polynomial (MultivariatePoly), the Composite expression and its         *)
(* shunting-yard reduction, the Fiat-Shamir Transcript, the sum-check      *)
(* prover and verifier, and the GKR prover and verifier built on them.     *)
(*                                                                         *)
(* The prime field is scaled down to a small prime Q; the hash function    *)
(* (the HashTrait parameter) is a keyed stand-in whose key selects one of  *)
(* several hash functions.  Sequences are 1-based in TLA+, the source's    *)
(* vectors 0-based: At(s, i) reads the source's s[i].                      *)
(***************************************************************************)
EXTENDS Integers, Sequences, FiniteSets, TLC

VARIABLES sy, cp, tr, sc, gkr, ml, dp, ms

vars == <<sy, cp, tr, sc, gkr, ml, dp, ms>>

(***************************************************************************)
(* Bounds of the model.                                                    *)
(***************************************************************************)
FieldIdx == 1
MaxOps == 3
MaxValue == 3
MaxKey == 1
MaxVars == 2
PoolSize == 3
MaxTranscriptOps == 3
MaxStep == 1
MaxStart == 1
MaxDelta == 2

Primes == <<3, 5, 7, 11, 13>>
\* The order of the scalar field (ark_bn254's Fq/Fr in the source).
Q == Primes[FieldIdx + 1]
Field == 0 .. (Q - 1)

(***************************************************************************)
(* Field arithmetic (ark_ff::PrimeField).                                  *)
(***************************************************************************)
from(n) == n % Q
fadd(a, b) == (a + b) % Q
fsub(a, b) == ((a - b) + Q) % Q
fmul(a, b) == (a * b) % Q

RECURSIVE pow(_, _)
pow(x, e) == IF e = 0 THEN 1 % Q ELSE fmul(x, pow(x, e - 1))

\* F::inverse: the multiplicative inverse of a nonzero element.
inverse(x) == CHOOSE y \in Field : fmul(x, y) = 1 % Q

(***************************************************************************)
(* usize arithmetic: shifts and masks.                                     *)
(***************************************************************************)
RECURSIVE Pow2(_)
Pow2(n) == IF n = 0 THEN 1 ELSE 2 * Pow2(n - 1)

Shl(x, n) == x * Pow2(n)
Shr(x, n) == x \div Pow2(n)
BitAt(x, k) == Shr(x, k) % 2
BitOr1(x, k) == IF BitAt(x, k) = 1 THEN x ELSE x + Pow2(k)

RECURSIVE BitAnd(_, _)
BitAnd(a, b) ==
  IF a = 0 \/ b = 0 THEN 0
  ELSE (a % 2) * (b % 2) + 2 * BitAnd(a \div 2, b \div 2)

\* usize::ilog2 / (x as f64).log2() as usize: the floor of log2, for x >= 1.
RECURSIVE ilog2(_)
ilog2(x) == IF x <= 1 THEN 0 ELSE 1 + ilog2(x \div 2)

\* (x as f64).log2().ceil() as usize; log2(0) is -inf, which casts to 0.
ceil_log2(x) == IF x <= 1 THEN 0 ELSE 1 + ilog2(x - 1)

\* usize::trailing_zeros, for x >= 1.
RECURSIVE trailing_zeros(_)
trailing_zeros(x) == IF x % 2 = 1 THEN 0 ELSE 1 + trailing_zeros(x \div 2)

At(s, i) == s[i + 1]

RECURSIVE SumSeq(_)
SumSeq(s) == IF s = <<>> THEN 0 ELSE fadd(Head(s), SumSeq(Tail(s)))

(***************************************************************************)
(* MultivariatePoly: {coeffs, num_vars}.                                   *)
(***************************************************************************)
Poly(coeffs, num_vars) == [coeffs |-> coeffs, num_vars |-> num_vars]

\* A constructor that accepts every coefficient list.
MultivariatePoly_new_unchecked(coeffs, num_vars) == TRUE
\* MultivariatePoly::new panics unless coeffs.len() == 2^num_vars.
MultivariatePoly_new_ok(coeffs, num_vars) == Len(coeffs) = Pow2(num_vars)

\* The while loop of partial_evaluate: i counts the outputs, j walks the
\* indices whose bit `power` is clear.
RECURSIVE partial_evaluate_loop(_, _, _, _, _, _)
partial_evaluate_loop(poly, power, val, i, j, new_poly) ==
  IF i >= Len(poly) \div 2 THEN new_poly
  ELSE LET y1 == At(poly, j)
           y2 == At(poly, BitOr1(j, power))
           nj == IF (j + 1) % Pow2(power) = 0 THEN j + 1 + Pow2(power) ELSE j + 1
       IN partial_evaluate_loop(poly, power, val, i + 1, nj,
                                Append(new_poly, fadd(y1, fmul(val, fsub(y2, y1)))))

\* A partial evaluation that counts the variables from the lowest bit.
partial_evaluate_low(poly, var_idx, val) ==
  partial_evaluate_loop(poly, var_idx, val, 0, 0, <<>>)
\* MultivariatePoly::partial_evaluate: binds bit num_vars - 1 - var_idx.
partial_evaluate(poly, var_idx, val) ==
  LET num_vars == ilog2(Len(poly))
      power == num_vars - 1 - var_idx
  IN partial_evaluate_loop(poly, power, val, 0, 0, <<>>)

RECURSIVE evaluate_term(_, _, _, _, _)
evaluate_term(term, i, j, num_vars, point) ==
  IF j >= num_vars THEN term
  ELSE evaluate_term(
         IF BitAt(i, j) = 1 THEN fmul(term, At(point, j))
                            ELSE fmul(term, fsub(1 % Q, At(point, j))),
         i, j + 1, num_vars, point)

RECURSIVE evaluate_sum(_, _, _)
evaluate_sum(p, point, i) ==
  IF i >= Len(p.coeffs) THEN 0
  ELSE fadd(evaluate_term(At(p.coeffs, i), i, 0, p.num_vars, point),
            evaluate_sum(p, point, i + 1))

\* MultivariatePoly::evaluate (panics unless point.len() == num_vars).
MultivariatePoly_evaluate(p, point) == evaluate_sum(p, point, 0)

RECURSIVE evaluate_partial_loop(_, _, _)
evaluate_partial_loop(evaluated_poly, points, i) ==
  IF i >= Len(points) THEN evaluated_poly
  ELSE evaluate_partial_loop(partial_evaluate(evaluated_poly, 0, At(points, i)),
                             points, i + 1)

evaluate_partial(p, points) == At(evaluate_partial_loop(p.coeffs, points, 0), 0)

\* An Option<F>: None or Some(v).
None == [some |-> FALSE, v |-> 0]
Some(x) == [some |-> TRUE, v |-> x]

RECURSIVE solve_loop(_, _, _, _)
solve_loop(intermediate_result, variable_len, values, i) ==
  IF i >= Len(values) THEN intermediate_result
  ELSE solve_loop(
         IF At(values, i).some
           THEN Poly(partial_evaluate(intermediate_result.coeffs,
                                      variable_len - i - 1, At(values, i).v),
                     intermediate_result.num_vars - 1)
           ELSE intermediate_result,
         variable_len, values, i + 1)

solve(p, values) == solve_loop(p, trailing_zeros(Len(p.coeffs)), values, 0)

blow_up_right(p, blows) ==
  LET new_variable_len == Shl(1, trailing_zeros(Len(p.coeffs)) + blows)
  IN Poly([i \in 1 .. new_variable_len |-> At(p.coeffs, Shr(i - 1, blows))],
          p.num_vars + blows)

blow_up_left(p, blows) ==
  LET new_variable_len == Shl(1, trailing_zeros(Len(p.coeffs)) + blows)
      mask == Len(p.coeffs) - 1
  IN Poly([i \in 1 .. new_variable_len |-> At(p.coeffs, BitAnd(i - 1, mask))],
          p.num_vars + blows)

scalar_mul(p, value) ==
  Poly([i \in 1 .. Len(p.coeffs) |-> fmul(p.coeffs[i], value)], p.num_vars)

\* An addition that adds the right operand's first value to every position.
MultivariatePoly_add_first(a, b) ==
  Poly([i \in 1 .. (IF Len(a.coeffs) < Len(b.coeffs) THEN Len(a.coeffs) ELSE Len(b.coeffs))
          |-> fadd(a.coeffs[i], b.coeffs[1])], a.num_vars)

\* impl Add / impl Mul for MultivariatePoly (both panic unless num_vars agree).
MultivariatePoly_add(a, b) ==
  Poly([i \in 1 .. (IF Len(a.coeffs) < Len(b.coeffs) THEN Len(a.coeffs) ELSE Len(b.coeffs))
          |-> fadd(a.coeffs[i], b.coeffs[i])], a.num_vars)

MultivariatePoly_mul(a, b) ==
  Poly([i \in 1 .. Len(a.coeffs) |-> fmul(a.coeffs[i], b.coeffs[i])], a.num_vars)

(***************************************************************************)
(* Composite: the shunting-yard reduction.                                 *)
(***************************************************************************)
OPS == {"ADD", "MUL"}

\* A precedence table in which MUL does not bind tighter than ADD.
getPrecedence_flat(op) == 0

getPrecedence(op) == IF op = "ADD" THEN 0 ELSE 1

\* OP_ELEMENT: Value(F), OP(OP) or Poly(MultivariatePoly).
Value(x) == [tag |-> "Value", v |-> x]
OpElem(op) == [tag |-> "OP", v |-> op]
PolyElem(p) == [tag |-> "Poly", v |-> p]

\* impl Add / impl Mul for Poly_or_F: dispatch on the left operand's variant.
Poly_or_F_add(l, r) ==
  IF l.tag = "Value" THEN Value(fadd(l.v, r.v))
  ELSE PolyElem(MultivariatePoly_add(l.v, r.v))

Poly_or_F_mul(l, r) ==
  IF l.tag = "Value" THEN Value(fmul(l.v, r.v))
  ELSE PolyElem(MultivariatePoly_mul(l.v, r.v))

\* operators.iter().rev().for_each(...): k runs from the top of the stack down.
RECURSIVE pop_operators(_, _, _, _, _, _)
pop_operators(operators, k, precedence, output, operator_indexes, new_operators) ==
  IF k = 0
    THEN [output |-> output, operator_indexes |-> operator_indexes,
          operators |-> new_operators]
  ELSE IF precedence <= getPrecedence(operators[k])
    THEN pop_operators(operators, k - 1, precedence,
                       Append(output, OpElem(operators[k])),
                       Append(operator_indexes, Len(output)),
                       SubSeq(new_operators, 1, Len(new_operators) - 1))
  ELSE pop_operators(operators, k - 1, precedence, output, operator_indexes,
                     new_operators)

\* The infix-to-postfix loop over the values.
RECURSIVE to_postfix(_, _, _, _, _, _)
to_postfix(values, ops, i, output, operators, operator_indexes) ==
  IF i >= Len(values)
    THEN pop_operators(operators, Len(operators), 0, output, operator_indexes,
                       operators)
  ELSE LET out1 == Append(output, At(values, i))
       IN IF i < Len(ops)
            THEN LET precedence == getPrecedence(At(ops, i))
                     popped ==
                       IF Len(operators) > 0
                          /\ precedence <= getPrecedence(operators[Len(operators)])
                         THEN pop_operators(operators, Len(operators), precedence,
                                            out1, operator_indexes, operators)
                         ELSE [output |-> out1,
                               operator_indexes |-> operator_indexes,
                               operators |-> operators]
                 IN to_postfix(values, ops, i + 1, popped.output,
                               Append(popped.operators, At(ops, i)),
                               popped.operator_indexes)
            ELSE to_postfix(values, ops, i + 1, out1, operators, operator_indexes)

\* The evaluation of the postfix expression held in output.
RECURSIVE eval_postfix(_, _, _, _)
eval_postfix(output, operator_indexes, n_ops, i) ==
  IF i >= n_ops THEN At(output, 0)
  ELSE LET operator_index == At(operator_indexes, i) - (i * 2)
           right_operand == At(output, operator_index - 1)
           left_operand == At(output, operator_index - 2)
           res == IF At(output, operator_index).v = "ADD"
                    THEN Poly_or_F_add(left_operand, right_operand)
                    ELSE Poly_or_F_mul(left_operand, right_operand)
           \* output[operator_index - 2] = res; output.drain(operator_index-1..operator_index+1)
           reduced == SubSeq(output, 1, operator_index - 2) \o <<res>>
                      \o SubSeq(output, operator_index + 2, Len(output))
       IN eval_postfix(reduced, operator_indexes, n_ops, i + 1)

\* shunting_yard_algo, for values.len() - 1 == ops.len() (else it returns Err).
shunting_yard_algo(values, ops) ==
  LET postfix == to_postfix(values, ops, 0, <<>>, <<>>, <<>>)
  IN eval_postfix(postfix.output, postfix.operator_indexes, Len(ops), 0)

(***************************************************************************)
(* Composite: {polys, ops}.                                                *)
(***************************************************************************)
\* Composite::new panics when the operator count is not one less than the
\* operand count, or when an operand's length is not a power of two.
Composite_new_panics(hypercubes, ops) ==
  \/ Len(ops) + 1 # Len(hypercubes)
  \/ \E k \in 1 .. Len(hypercubes) :
       Pow2(ilog2(Len(hypercubes[k]))) # Len(hypercubes[k])

Composite_new(hypercubes, ops) ==
  [polys |-> [k \in 1 .. Len(hypercubes) |->
                Poly(hypercubes[k], ilog2(Len(hypercubes[k])))],
   ops |-> ops]

\* A partial evaluation that binds the operands' last variable, not `index`.
Composite_partial_evaluate_last(c, value, index) ==
  [polys |-> [k \in 1 .. Len(c.polys) |->
                Poly(partial_evaluate(c.polys[k].coeffs,
                                      c.polys[k].num_vars - 1 - index,
                                      At(value, index)),
                     c.polys[k].num_vars - 1)],
   ops |-> c.ops]

Composite_partial_evaluate(c, value, index) ==
  [polys |-> [k \in 1 .. Len(c.polys) |->
                Poly(partial_evaluate(c.polys[k].coeffs, index, At(value, index)),
                     c.polys[k].num_vars - 1)],
   ops |-> c.ops]

\* Composite::evaluate, for values.len() == polys[0].num_vars and every value
\* Some (it panics otherwise).
Composite_evaluate(c, values) ==
  LET evaluated_values == [i \in 1 .. Len(values) |-> values[i].v]
      result == [k \in 1 .. Len(c.polys) |->
                   Value(evaluate_partial(c.polys[k], evaluated_values))]
  IN shunting_yard_algo(result, c.ops).v

\* Composite::reduce panics unless all operands have the same length.
reduce_panics(c) ==
  \E k \in 1 .. Len(c.polys) : Len(c.polys[k].coeffs) # Len(c.polys[1].coeffs)

reduce(c) ==
  shunting_yard_algo([k \in 1 .. Len(c.polys) |-> PolyElem(c.polys[k])], c.ops).v

SomeAll(vs) == [i \in 1 .. Len(vs) |-> Some(vs[i])]

(***************************************************************************)
(* Transcript<K: HashTrait, F> over KeccakWrapper.  A byte is scaled down   *)
(* to two bits, a field element's encoding to two bytes and a digest to     *)
(* three; the state of the hasher is the byte string fed to it so far.      *)
(***************************************************************************)
\* F::into_bigint().to_bytes_be(): the fixed-width big-endian encoding.
to_bytes_be(x) == <<x \div 4, x % 4>>

RECURSIVE be_value(_, _)
be_value(bytes, acc) ==
  IF bytes = <<>> THEN acc ELSE be_value(Tail(bytes), acc * 4 + Head(bytes))

\* F::from_be_bytes_mod_order
from_be_bytes_mod_order(bytes) == be_value(bytes, 0) % Q

\* The hash function selected by key k, applied to the bytes fed so far.
RECURSIVE Keccak256_state(_, _)
Keccak256_state(h, data) ==
  IF h \in 0 .. 63 /\ data # <<>>
  THEN Keccak256_state((h * 3 + Head(data) + 1) % 64, Tail(data))
  ELSE h

\* KeccakWrapper::generate_hash: self.keccak.clone().finalize().to_vec()
generate_hash(k, hash_function) ==
  LET h == Keccak256_state(k, hash_function)
  IN <<h \div 16, (h \div 4) % 4, h % 4>>

\* Transcript::new(KeccakWrapper { keccak: Keccak256::new() })
Transcript_new == <<>>

\* Transcript::absorb -> KeccakWrapper::append -> Keccak256::update
absorb(hash_function, data) == hash_function \o data

\* Transcript::squeeze: the field element it returns ...
squeeze(k, hash_function) == from_be_bytes_mod_order(generate_hash(k, hash_function))

\* ... and the hasher it leaves behind: squeeze hashes a clone and leaves
\* hash_function as it was.
squeeze_state(k, hash_function) == hash_function

RECURSIVE data_bytes(_)
data_bytes(data) ==
  IF data = <<>> THEN <<>> ELSE to_bytes_be(Head(data)) \o data_bytes(Tail(data))

\* add_data_to_transcript, once the bytes are absorbed
squeeze_challenge(k, absorbed) ==
  [challenge |-> from_be_bytes_mod_order(to_bytes_be(squeeze(k, absorbed))),
   transcript |-> squeeze_state(k, absorbed)]

\* add_data_to_transcript: the challenge and the transcript afterwards.
add_data_to_transcript(k, data, transcript) ==
  squeeze_challenge(k, absorb(transcript, data_bytes(data)))

(***************************************************************************)
(* DensePolynomial: coefficients in increasing degree.                      *)
(***************************************************************************)
RECURSIVE DensePolynomial_new(_)
DensePolynomial_new(coefficients) ==
  IF Len(coefficients) > 1 /\ coefficients[Len(coefficients)] = 0
  THEN DensePolynomial_new(SubSeq(coefficients, 1, Len(coefficients) - 1))
  ELSE coefficients

RECURSIVE DensePolynomial_evaluate_from(_, _, _)
DensePolynomial_evaluate_from(coefficients, x, i) ==
  IF i >= Len(coefficients) THEN 0
  ELSE fadd(fmul(At(coefficients, i), pow(x, i)),
            DensePolynomial_evaluate_from(coefficients, x, i + 1))

DensePolynomial_evaluate(coefficients, x) ==
  DensePolynomial_evaluate_from(coefficients, x, 0)

\* points are pairs <<x, y>>
RECURSIVE compute_lagrange_denominator_from(_, _, _, _)
compute_lagrange_denominator_from(x_i, points, i, j) ==
  IF j >= Len(points) THEN 1 % Q
  ELSE fmul(IF j # i THEN fsub(x_i, At(points, j)[1]) ELSE 1 % Q,
            compute_lagrange_denominator_from(x_i, points, i, j + 1))

compute_lagrange_denominator(x_i, points, i) ==
  compute_lagrange_denominator_from(x_i, points, i, 0)

\* Multiplies by (X + x_j) instead.
compute_linear_term_plus(x_j, current) ==
  [k1 \in 1 .. Len(current) |->
     fadd(IF k1 > 1 THEN current[k1 - 1] ELSE 0, fmul(current[k1], x_j))]
\* Multiplies the polynomial by (X - x_j), within n coefficients.
compute_linear_term(x_j, current) ==
  [k1 \in 1 .. Len(current) |->
     fsub(IF k1 > 1 THEN current[k1 - 1] ELSE 0, fmul(current[k1], x_j))]

RECURSIVE compute_lagrange_basis_from(_, _, _, _)
compute_lagrange_basis_from(i, points, j, basis) ==
  IF j >= Len(points) THEN basis
  ELSE compute_lagrange_basis_from(i, points, j + 1,
         IF i # j THEN compute_linear_term(At(points, j)[1], basis) ELSE basis)

compute_lagrange_basis(i, points) ==
  compute_lagrange_basis_from(i, points, 0,
    [k1 \in 1 .. Len(points) |-> IF k1 = 1 THEN 1 % Q ELSE 0])

\* denominator.inverse().unwrap() panics on a zero denominator
interpolate_panics(points) ==
  \E i \in 0 .. (Len(points) - 1) :
    compute_lagrange_denominator(At(points, i)[1], points, i) = 0

RECURSIVE interpolate_from(_, _, _)
interpolate_from(points, i, result) ==
  IF i >= Len(points) THEN result
  ELSE LET denominator == compute_lagrange_denominator(At(points, i)[1], points, i)
           term == fmul(At(points, i)[2], inverse(denominator))
           basis == compute_lagrange_basis(i, points)
       IN interpolate_from(points, i + 1,
            [k1 \in 1 .. Len(points) |-> fadd(result[k1], fmul(basis[k1], term))])

interpolate(points) ==
  IF points = <<>> THEN DensePolynomial_new(<<0>>)
  ELSE DensePolynomial_new(interpolate_from(points, 0, [k1 \in 1 .. Len(points) |-> 0]))

(***************************************************************************)
(* Sum-check: generate_partial_proof, verify_partial_proof(_2).            *)
(***************************************************************************)
\* The point of an extra evaluation: 3 instead of 2 for the round's variable.
extra_point_values_at_3(rounds_left, index) ==
  [x1 \in 1 .. rounds_left |->
     IF x1 = 1 THEN Some(from(3))
     ELSE Some(from(BitAt(index, rounds_left - (x1 - 1) - 1)))]

\* sumcheck.rs 26-34: (2, bits of index, most significant first)
extra_point_values(rounds_left, index) ==
  [x1 \in 1 .. rounds_left |->
     IF x1 = 1 THEN Some(from(2))
     ELSE Some(from(BitAt(index, rounds_left - (x1 - 1) - 1)))]

\* sumcheck.rs 36-37: reduced_poly.coeffs after the extra points are pushed
extended_coeffs(poly_eval, rounds_left, coeffs, extra_points) ==
  coeffs \o [index1 \in 1 .. extra_points |->
               Composite_evaluate(poly_eval,
                                  extra_point_values(rounds_left, index1 - 1))]

\* The round polynomial with e2 extrapolated linearly from e0 and e1.
round_poly_sums_linear(coeffs, extra_points) ==
  [j1 \in 1 .. 3 |->
     IF j1 = 3
     THEN fsub(fmul(from(2), SumSeq(SubSeq(coeffs, extra_points + 1, 2 * extra_points))),
               SumSeq(SubSeq(coeffs, 1, extra_points)))
     ELSE SumSeq(SubSeq(coeffs, (j1 - 1) * extra_points + 1, j1 * extra_points))]
\* sumcheck.rs 41-44: round_poly[j] = sum of the j-th run of extra_points values
round_poly_sums(coeffs, extra_points) ==
  [j1 \in 1 .. 3 |->
     SumSeq(SubSeq(coeffs, (j1 - 1) * extra_points + 1, j1 * extra_points))]

round_poly_from(poly_eval, rounds_left, coeffs) ==
  round_poly_sums(extended_coeffs(poly_eval, rounds_left, coeffs, Len(coeffs) \div 2),
                  Len(coeffs) \div 2)

\* sumcheck.rs 21-44: the round polynomial [e0, e1, e2] of poly_eval
round_poly_of(poly_eval, rounds_left) ==
  round_poly_from(poly_eval, rounds_left, reduce(poly_eval).coeffs)

\* The claimed sum taken from the last round instead of round 0.
claimed_sum_last(partial_evals) == partial_evals[Len(partial_evals)]

\* sumcheck.rs 61: partial_evals[0]
claimed_sum(partial_evals) == At(partial_evals, 0)

RECURSIVE generate_partial_proof_loop(_, _, _, _, _, _, _, _)
generate_partial_proof_loop(k, poly_eval, transcript, rounds, i, round_polys, challenges, partial_evals) ==
  IF i >= rounds
  THEN [ok |-> partial_evals # <<>>,
        sum |-> IF partial_evals # <<>> THEN claimed_sum(partial_evals) ELSE 0,
        round_polys |-> round_polys,
        challenges |-> challenges,
        transcript |-> transcript]
  ELSE LET round(round_poly) ==
             LET final_eval == fadd(round_poly[1], round_poly[2])
                 next(r) ==
                   generate_partial_proof_loop(k,
                     Composite_partial_evaluate(poly_eval, <<r.challenge>>, 0),
                     r.transcript, rounds, i + 1,
                     Append(round_polys, round_poly),
                     Append(challenges, r.challenge),
                     Append(partial_evals, final_eval))
             IN next(add_data_to_transcript(k, <<final_eval>> \o round_poly,
                                            transcript))
       IN round(round_poly_of(poly_eval, rounds - i))

\* A prover that stops one round early.
generate_partial_proof_short(k, poly, transcript, challenges) ==
  generate_partial_proof_loop(k, poly, transcript, poly.polys[1].num_vars - 1, 0,
                              <<>>, challenges, <<>>)

\* generate_partial_proof; `challenges` is the caller's vector, appended to.
generate_partial_proof(k, poly, transcript, challenges) ==
  generate_partial_proof_loop(k, poly, transcript, poly.polys[1].num_vars, 0,
                              <<>>, challenges, <<>>)

\* A verifier that lets every round pass.
sum_matches_always(final_sum, round_poly) == TRUE

\* sumcheck.rs 72 and 101: final_sum == round_poly[0] + round_poly[1]
sum_matches(final_sum, round_poly) ==
  final_sum = fadd(At(round_poly, 0), At(round_poly, 1))

\* sumcheck.rs 84 and 111: the points (0, e0), (1, e1), ...
points_of(round_poly) ==
  [x1 \in 1 .. Len(round_poly) |-> <<from(x1 - 1), round_poly[x1]>>]

Panicked(why, i, challenges, transcript) ==
  [status |-> "panic", why |-> why, round |-> i, sum |-> 0,
   challenges |-> challenges, transcript |-> transcript]

RECURSIVE verify_partial_proof_loop(_, _, _, _, _, _)
verify_partial_proof_loop(k, final_sum, round_polys, transcript, i, challenges) ==
  IF i >= Len(round_polys)
  THEN [status |-> "ok", why |-> "", round |-> i, sum |-> final_sum,
        challenges |-> challenges, transcript |-> transcript]
  ELSE IF Len(At(round_polys, i)) < 2
  THEN Panicked("index out of bounds", i, challenges, transcript)
  ELSE IF ~sum_matches(final_sum, At(round_polys, i))
  THEN Panicked("Invalid proof", i, challenges, transcript)
  ELSE LET next(r, points) ==
             IF interpolate_panics(points)
             THEN Panicked("unwrap on None", i, Append(challenges, r.challenge),
                           r.transcript)
             ELSE verify_partial_proof_loop(k,
                    DensePolynomial_evaluate(interpolate(points), r.challenge),
                    round_polys, r.transcript, i + 1,
                    Append(challenges, r.challenge))
       IN next(add_data_to_transcript(k, <<final_sum>> \o At(round_polys, i),
                                      transcript),
               points_of(At(round_polys, i)))

\* verify_partial_proof(initial_sum, round_polys, transcript)
verify_partial_proof(k, initial_sum, round_polys, transcript) ==
  verify_partial_proof_loop(k, initial_sum, round_polys, transcript, 0, <<>>)

RECURSIVE verify_partial_proof_2_loop(_, _, _, _, _, _)
verify_partial_proof_2_loop(k, sum, polys, transcript, i, challenges) ==
  IF i >= Len(polys)
  THEN [status |-> "ok", why |-> "", round |-> i, sum |-> sum,
        challenges |-> challenges, transcript |-> transcript]
  ELSE IF Len(At(polys, i)) < 2
  THEN Panicked("index out of bounds", i, challenges, transcript)
  ELSE IF ~sum_matches(sum, At(polys, i))
  THEN Panicked("Invalid proof for partial sum check", i, challenges, transcript)
  ELSE LET next(r, points) ==
             IF interpolate_panics(points)
             THEN Panicked("unwrap on None", i, Append(challenges, r.challenge),
                           r.transcript)
             ELSE verify_partial_proof_2_loop(k,
                    DensePolynomial_evaluate(interpolate(points), r.challenge),
                    polys, r.transcript, i + 1, Append(challenges, r.challenge))
       IN next(add_data_to_transcript(k, <<sum>> \o At(polys, i), transcript),
               points_of(At(polys, i)))

\* verify_partial_proof_2(sum, polys, transcript)
verify_partial_proof_2(k, sum, polys, transcript) ==
  verify_partial_proof_2_loop(k, sum, polys, transcript, 0, <<>>)

(***************************************************************************)
(* GKR: the circuit, the wiring polynomials, generate_proof, verify_proof. *)
(***************************************************************************)
Gate(op, left_input, right_input) ==
  [op |-> op, left_input |-> left_input, right_input |-> right_input]

\* One layer of Circuit::evaluate: each gate combines two values of the layer
\* below.
evaluate_layer(layer_gates, below) ==
  [g \in 1 .. Len(layer_gates) |->
     IF layer_gates[g].op = "ADD"
     THEN fadd(At(below, layer_gates[g].left_input),
               At(below, layer_gates[g].right_input))
     ELSE fmul(At(below, layer_gates[g].left_input),
               At(below, layer_gates[g].right_input))]

RECURSIVE Circuit_evaluate_from(_, _, _)
Circuit_evaluate_from(gates, i, layers) ==
  IF i = 0 THEN layers
  ELSE Circuit_evaluate_from(gates, i - 1,
                             <<evaluate_layer(gates[i], Head(layers))>> \o layers)

\* Circuit::evaluate: layers[0] is the output layer, the last layer the inputs.
Circuit_evaluate(gates, inputs) ==
  Circuit_evaluate_from(gates, Len(gates), <<inputs>>)

next_pow_of_2(no) == IF ceil_log2(no) = 0 THEN 1 ELSE ceil_log2(no)

max(a, b) == IF a > b THEN a ELSE b

\* gkr.rs 195: the largest input index of a layer's gates
RECURSIVE max_input(_, _)
max_input(layer_gates, best) ==
  IF layer_gates = <<>> THEN best
  ELSE max_input(Tail(layer_gates),
                 max(best, max(Head(layer_gates).left_input,
                               Head(layer_gates).right_input)))

\* gkr.rs 194-198
layer_length_of(gates, i) ==
  IF Len(gates) <= i + 1 THEN max_input(At(gates, i), 0)
  ELSE Len(At(gates, i + 1))

\* gkr.rs 207-209
gate_index(j, gate, max_layer_bits) ==
  Shl(j, max_layer_bits * 2) + Shl(gate.left_input, max_layer_bits)
    + gate.right_input

\* gkr.rs 202: 1 << max_gates_bits + (max_layer_bits * 2)
points_len_of(gates, i) ==
  Shl(1, next_pow_of_2(Len(At(gates, i)))
           + next_pow_of_2(layer_length_of(gates, i)) * 2)

\* add_poly[index] = 1 / mul_poly[index] = 1 is an index out of bounds
get_add_and_muls_panics(gates) ==
  \E i \in 0 .. (Len(gates) - 1) : \E j \in 0 .. (Len(At(gates, i)) - 1) :
    gate_index(j, At(At(gates, i), j), next_pow_of_2(layer_length_of(gates, i)))
      >= points_len_of(gates, i)

\* The wiring polynomial of layer i for the gates with operation op.
op_poly(layer_gates, op, max_layer_bits, points_len) ==
  Poly([x \in 1 .. points_len |->
          IF \E j \in 1 .. Len(layer_gates) :
               /\ layer_gates[j].op = op
               /\ gate_index(j - 1, layer_gates[j], max_layer_bits) = x - 1
          THEN 1 % Q ELSE 0],
       ceil_log2(points_len))

\* get_add_and_muls: element i is (add_poly, mul_poly) of layer i
get_add_and_muls(gates) ==
  [i1 \in 1 .. Len(gates) |->
     [add |-> op_poly(gates[i1], "ADD",
                      next_pow_of_2(layer_length_of(gates, i1 - 1)),
                      points_len_of(gates, i1 - 1)),
      mul |-> op_poly(gates[i1], "MUL",
                      next_pow_of_2(layer_length_of(gates, i1 - 1)),
                      points_len_of(gates, i1 - 1))]]

take(s, n) == SubSeq(s, 1, IF n < Len(s) THEN n ELSE Len(s))
skip(s, n) == SubSeq(s, n + 1, Len(s))

\* gkr.rs 233-240
alpha_beta_challenges(challenges, skipped, no_of_challenges, no_of_variables) ==
  SomeAll(take(skip(challenges, skipped), no_of_challenges))
    \o [x \in 1 .. (no_of_variables - no_of_challenges) |-> None]

apply_alpha_beta(alpha, beta, challenges, former_op_poly) ==
  MultivariatePoly_add(
    scalar_mul(solve(former_op_poly,
                     alpha_beta_challenges(challenges, 0, Len(challenges) \div 2,
                                           ilog2(Len(former_op_poly.coeffs)))),
               alpha),
    scalar_mul(solve(former_op_poly,
                     alpha_beta_challenges(challenges, Len(challenges) \div 2,
                                           Len(challenges) \div 2,
                                           ilog2(Len(former_op_poly.coeffs)))),
               beta))

\* F::from_be_bytes_mod_order(&transcript.squeeze().into_bigint().to_bytes_be())
squeezed_challenge(k, transcript) ==
  from_be_bytes_mod_order(to_bytes_be(squeeze(k, transcript)))

NoGKRProof ==
  [claimed_sums |-> <<>>, round_polys |-> <<>>, evaluations |-> <<>>,
   output |-> <<>>]

\* points records the local `challenges` of every layer after its sum-check
\* (gkr.rs 91), output layer first; GKRProof does not carry it.
ProverPanicked(why, i) ==
  [ok |-> FALSE, why |-> why, layer |-> i, proof |-> NoGKRProof,
   transcript |-> <<>>, points |-> <<>>]

with_point(result, point) == [result EXCEPT !.points = <<point>> \o @]

\* gkr.rs 62-64 and 76-89: the composite add_poly * w_plus + mul_poly * w_mul
layer_composite(add_poly, mul_poly, w_b, w_c) ==
  Composite_new(<< add_poly.coeffs,
                   MultivariatePoly_add(Poly(w_b.coeffs, ceil_log2(Len(w_b.coeffs))),
                                        Poly(w_c.coeffs, ceil_log2(Len(w_c.coeffs)))).coeffs,
                   mul_poly.coeffs,
                   MultivariatePoly_mul(Poly(w_b.coeffs, ceil_log2(Len(w_b.coeffs))),
                                        Poly(w_c.coeffs, ceil_log2(Len(w_c.coeffs)))).coeffs >>,
                <<"MUL", "ADD", "MUL">>)

\* gkr.rs 66-74 (prover) and 167-173 (verifier): the wiring polynomial at
\* the challenges of the layer above
restricted(op_poly_i, i, alpha, beta, challenges) ==
  IF i # 0 THEN apply_alpha_beta(alpha, beta, challenges, op_poly_i)
  ELSE solve(op_poly_i, SomeAll(challenges))

\* solve subtracts from usize: variable_len - i - 1 underflows for a value
\* bound at a position i >= variable_len.
solve_panics(p, values) ==
  \/ ~MultivariatePoly_new_ok(p.coeffs, p.num_vars)
  \/ \E x \in 1 .. Len(values) :
       values[x].some /\ x > trailing_zeros(Len(p.coeffs))

\* The transcript operations of add_data_to_transcript, as log entries.
add_data_log(data) == << <<"absorb", data_bytes(data)>>, <<"squeeze", <<>> >> >>

\* gkr.rs 45-51: the prover absorbs w_i, squeezes once and copies the value
\* into every initial challenge.
initial_challenges_prover(k, w, transcript) ==
  LET absorbed == add_data_to_transcript(k, w, transcript).transcript
  IN [challenges |-> [x \in 1 .. next_pow_of_2(Len(w)) |->
                        squeezed_challenge(k, absorbed)],
      transcript |-> squeeze_state(k, absorbed),
      log |-> add_data_log(w) \o << <<"squeeze", <<>> >> >>]

\* gkr.rs 128-132: the verifier absorbs w_i and squeezes once per initial
\* challenge.
RECURSIVE initial_challenges_verifier_from(_, _, _, _, _)
initial_challenges_verifier_from(k, n, transcript, challenges, log) ==
  IF n = 0
  THEN [challenges |-> challenges, transcript |-> transcript, log |-> log]
  ELSE initial_challenges_verifier_from(k, n - 1, squeeze_state(k, transcript),
         Append(challenges, squeezed_challenge(k, transcript)),
         Append(log, <<"squeeze", <<>> >>))

initial_challenges_verifier(k, w, transcript) ==
  initial_challenges_verifier_from(k, next_pow_of_2(Len(w)),
    add_data_to_transcript(k, w, transcript).transcript, <<>>, add_data_log(w))

RECURSIVE generate_proof_layers(_, _, _, _, _, _, _)
generate_proof_layers(k, gates, layers, transcript, challenges, i, gkr_proof) ==
  IF i >= Len(gates)
  THEN [ok |-> TRUE, why |-> "", layer |-> i,
        proof |-> [gkr_proof EXCEPT !.output = At(layers, 0)],
        transcript |-> transcript, points |-> <<>>]
  ELSE IF ~MultivariatePoly_new_ok(At(layers, i + 1), ceil_log2(Len(At(layers, i + 1))))
  THEN ProverPanicked("Invalid number of coefficients", i)
  ELSE
    LET layer(w_i_plus_1, blows, add_poly_i, mul_poly_i) ==
      IF i # 0 /\ ilog2(Len(add_poly_i.coeffs)) < Len(challenges) \div 2
      THEN ProverPanicked("attempt to subtract with overflow", i)
      ELSE IF solve_panics(add_poly_i, IF i # 0 THEN SomeAll(take(challenges, Len(challenges) \div 2)) ELSE SomeAll(challenges))
      THEN ProverPanicked("attempt to subtract with overflow", i)
      ELSE
        LET sumcheck(f_poly) ==
          IF reduce_panics(f_poly)
          THEN ProverPanicked("Mismatched polynomial lengths", i)
          ELSE IF f_poly.polys[1].num_vars = 0
          THEN ProverPanicked("index out of bounds", i)
          ELSE
            LET evaluations(g) ==
              IF \/ solve_panics(w_i_plus_1, SomeAll(take(g.challenges, blows)))
                 \/ solve_panics(w_i_plus_1, SomeAll(skip(g.challenges, blows)))
              THEN ProverPanicked("attempt to subtract with overflow", i)
              ELSE
                LET record(w_b_eval, w_c_eval) ==
                  with_point(
                    generate_proof_layers(k, gates, layers,
                      add_data_to_transcript(k, <<w_b_eval, w_c_eval>>,
                                             g.transcript).transcript,
                      g.challenges, i + 1,
                      [claimed_sums |-> Append(gkr_proof.claimed_sums, g.sum),
                       round_polys |-> Append(gkr_proof.round_polys, g.round_polys),
                       evaluations |-> Append(gkr_proof.evaluations,
                                              <<w_b_eval, w_c_eval>>),
                       output |-> gkr_proof.output]),
                    g.challenges)
                IN record(
                     At(solve(w_i_plus_1, SomeAll(take(g.challenges, blows))).coeffs, 0),
                     At(solve(w_i_plus_1, SomeAll(skip(g.challenges, blows))).coeffs, 0))
            IN evaluations(generate_partial_proof(k, f_poly, transcript, <<>>))
        IN sumcheck(layer_composite(
             restricted(add_poly_i, i, squeezed_challenge(k, transcript),
                        squeezed_challenge(k, transcript), challenges),
             restricted(mul_poly_i, i, squeezed_challenge(k, transcript),
                        squeezed_challenge(k, transcript), challenges),
             blow_up_right(w_i_plus_1, blows),
             blow_up_left(w_i_plus_1, blows)))
    IN layer(Poly(At(layers, i + 1), ceil_log2(Len(At(layers, i + 1)))),
             next_pow_of_2(Len(At(layers, i + 1))),
             At(get_add_and_muls(gates), i).add,
             At(get_add_and_muls(gates), i).mul)

\* gkr.rs 38-51: the output layer is absorbed and one squeezed value is
\* copied into every initial challenge.
generate_proof_from(k, gates, layers, transcript, w) ==
  IF get_add_and_muls_panics(gates)
  THEN ProverPanicked("index out of bounds", 0)
  ELSE IF ~MultivariatePoly_new_ok(w, ceil_log2(Len(At(layers, 0))))
  THEN ProverPanicked("Invalid number of coefficients", 0)
  ELSE
    LET start(initial) ==
      generate_proof_layers(k, gates, layers, initial.transcript,
                            initial.challenges, 0, NoGKRProof)
    IN start(initial_challenges_prover(k, w, transcript))

padded_output(output) ==
  IF Len(output) = 1 THEN <<At(output, 0), 0>> ELSE output

\* generate_proof(circuit, inputs, transcript)
generate_proof(k, gates, inputs, transcript) ==
  LET with(layers) ==
    generate_proof_from(k, gates, layers, transcript, padded_output(At(layers, 0)))
  IN with(Circuit_evaluate(gates, inputs))

\* drawn records the (alpha, beta) of every layer the verifier went through
\* (gkr.rs 142-145; both zero for layer 0), output layer first.
VerifierPanicked(why, i) ==
  [result |-> "panic", why |-> why, layer |-> i, drawn |-> <<>>]

with_drawn(verdict, alpha_beta) == [verdict EXCEPT !.drawn = <<alpha_beta>> \o @]

\* gkr.rs 149-162: (w_b_eval, w_c_eval) of layer i, from the proof or, for the
\* last layer, from the inputs at the two halves of the new challenges
layer_evaluations(gates, inputs, evaluations, new_challenges, i) ==
  IF i < Len(gates) - 1 THEN At(evaluations, i)
  ELSE << At(solve(Poly(inputs, ceil_log2(Len(inputs))),
                   SomeAll(take(new_challenges, Len(new_challenges) \div 2))).coeffs, 0),
          At(solve(Poly(inputs, ceil_log2(Len(inputs))),
                   SomeAll(take(skip(new_challenges, Len(new_challenges) \div 2),
                                Len(new_challenges) \div 2))).coeffs, 0) >>

layer_evaluations_panics(gates, inputs, evaluations, new_challenges, i) ==
  IF i < Len(gates) - 1 THEN i >= Len(evaluations)
  ELSE \/ ~MultivariatePoly_new_ok(inputs, ceil_log2(Len(inputs)))
       \/ Len(new_challenges) \div 2 > ceil_log2(Len(inputs))

\* gkr.rs 175-179: mul_poly * w_mul + add_poly * w_plus at the new challenges
evaluated_sum_of(add_poly, mul_poly, w_b_eval, w_c_eval, new_challenges) ==
  At(solve(MultivariatePoly_add(scalar_mul(mul_poly, fmul(w_b_eval, w_c_eval)),
                                scalar_mul(add_poly, fadd(w_b_eval, w_c_eval))),
           SomeAll(new_challenges)).coeffs, 0)

\* gkr.rs 119-121 and 141: every round record goes through
\* DensePolynomial::new and its coefficients are handed to the sum-check.
rebuilt_round_polys(records) ==
  [r1 \in 1 .. Len(records) |-> DensePolynomial_new(records[r1])]

RECURSIVE verify_proof_layers(_, _, _, _, _, _, _)
verify_proof_layers(k, gates, inputs, transcript, challenges, i, given) ==
  IF i >= Len(gates) THEN [result |-> "true", why |-> "", layer |-> i, drawn |-> <<>>]
  ELSE IF i >= Len(given.round_polys) \/ i >= Len(given.claimed_sums)
  THEN VerifierPanicked("index out of bounds", i)
  ELSE
    LET checked(v, add_poly_i, mul_poly_i) ==
      IF v.status = "panic" THEN VerifierPanicked(v.why, i)
      ELSE IF layer_evaluations_panics(gates, inputs, given.evaluations, v.challenges, i)
      THEN VerifierPanicked("Invalid number of coefficients", i)
      ELSE IF \/ (i # 0 /\ ilog2(Len(add_poly_i.coeffs)) < Len(challenges) \div 2)
              \/ (i = 0 /\ solve_panics(add_poly_i, SomeAll(challenges)))
      THEN VerifierPanicked("attempt to subtract with overflow", i)
      ELSE
        LET compared(w_evals, add_poly, mul_poly) ==
          IF Len(v.challenges) > add_poly.num_vars
          THEN VerifierPanicked("attempt to subtract with overflow", i)
          ELSE IF v.sum # evaluated_sum_of(add_poly, mul_poly, w_evals[1],
                                           w_evals[2], v.challenges)
          THEN [result |-> "false", why |-> "", layer |-> i, drawn |-> <<>>]
          ELSE with_drawn(
                 verify_proof_layers(k, gates, inputs,
                   add_data_to_transcript(k, w_evals, v.transcript).transcript,
                   v.challenges, i + 1, given),
                 IF i # 0 THEN <<squeezed_challenge(k, transcript),
                                 squeezed_challenge(k, transcript)>>
                 ELSE <<0, 0>>)
        IN compared(
             layer_evaluations(gates, inputs, given.evaluations, v.challenges, i),
             restricted(add_poly_i, i, squeezed_challenge(k, transcript),
                        squeezed_challenge(k, transcript), challenges),
             restricted(mul_poly_i, i, squeezed_challenge(k, transcript),
                        squeezed_challenge(k, transcript), challenges))
    IN checked(verify_partial_proof_2(k, At(given.claimed_sums, i),
                 rebuilt_round_polys(At(given.round_polys, i)),
                 transcript),
               At(get_add_and_muls(gates), i).add,
               At(get_add_and_muls(gates), i).mul)

\* verify_proof(circuit, inputs, transcript, gkr_proof)
verify_proof(k, gates, inputs, transcript, gkr_proof) ==
  IF get_add_and_muls_panics(gates)
  THEN VerifierPanicked("index out of bounds", 0)
  ELSE IF ~MultivariatePoly_new_ok(padded_output(gkr_proof.output),
                                   ceil_log2(Len(padded_output(gkr_proof.output))))
  THEN VerifierPanicked("Invalid number of coefficients", 0)
  ELSE
    LET start(initial) ==
      verify_proof_layers(k, gates, inputs, initial.transcript,
                          initial.challenges, 0, gkr_proof)
    IN start(initial_challenges_verifier(k, padded_output(gkr_proof.output),
                                         transcript))

(***************************************************************************)
(* The shunting-yard reduction applied to lists of scalars.                *)
(***************************************************************************)
RECURSIVE SeqsOf(_, _)
SeqsOf(S, n) ==
  IF n = 0 THEN {<<>>}
  ELSE {Append(s, x) : s \in SeqsOf(S, n - 1), x \in S}

\* test_shunting_yard_algo and test_shunting_yard_algo_complex.
TestExprs ==
  { [values |-> <<2, 2, 3, 3, 3, 3, 7, 7>>,
     ops |-> <<"MUL", "MUL", "MUL", "MUL", "ADD", "MUL", "MUL">>],
    [values |-> <<2, 3, 4, 5, 6, 7>>,
     ops |-> <<"ADD", "MUL", "ADD", "ADD", "MUL">>] }

\* The expressions of k operators over the small values.
Exprs(k) ==
  { [values |-> vs, ops |-> os] :
      vs \in SeqsOf(0 .. MaxValue, k + 1), os \in SeqsOf(OPS, k) }

FromAll(vs) == [i \in 1 .. Len(vs) |-> from(vs[i])]
Values(vs) == [i \in 1 .. Len(vs) |-> Value(from(vs[i]))]

SYIdle == [pc |-> "idle", values |-> <<>>, ops |-> <<>>, result |-> 0]
CPIdle == [pc |-> "idle"]
TRIdle == [pc |-> "idle"]
SCIdle == [pc |-> "idle"]
GKRIdle == [pc |-> "idle"]
MLIdle == [pc |-> "idle"]
DPIdle == [pc |-> "idle"]
MSIdle == [pc |-> "idle"]
\* The components a specification does not exercise stay idle.
OthersIdle == ml = MLIdle /\ dp = DPIdle /\ ms = MSIdle

SYInit ==
  /\ \E e \in TestExprs \cup UNION { Exprs(k) : k \in 0 .. MaxOps } :
       sy = [pc |-> "start", values |-> e.values, ops |-> e.ops,
                            result |-> 0]
  /\ cp = CPIdle /\ tr = TRIdle /\ sc = SCIdle /\ gkr = GKRIdle /\ OthersIdle

ShuntingYard ==
  /\ sy.pc = "start"
  /\ sy' = [sy EXCEPT !.pc = "done",
                      !.result = shunting_yard_algo(Values(sy.values), sy.ops).v]
  /\ UNCHANGED <<cp, tr, sc, gkr, ml, dp, ms>>

SYNext == ShuntingYard

SpecShuntingYard == SYInit /\ [][SYNext]_vars

(***************************************************************************)
(* Composite: partial evaluation followed by evaluation.                   *)
(***************************************************************************)
\* An operand of n variables, the k-th of the pool.
PoolCube(k, n) ==
  [i \in 1 .. Pow2(n) |-> from(k * (i - 1) * (i - 1) + (i - 1) + k + 1)]

\* test_partial_evaluate and test_evaluate: (a * b) + c.
TestComposite ==
  [cubes |-> << FromAll(<<0, 3, 2, 5>>), FromAll(<<0, 4, 0, 11>>),
                FromAll(<<0, 3, 6, 11>>) >>,
   ops |-> <<"MUL", "ADD">>]

\* The operator lists of the composites: sums, products of two, the GKR
\* layer's shape, and a product of three.
SCShapes ==
  { <<>>, <<"ADD">>, <<"MUL">>, <<"MUL", "ADD">>, <<"ADD", "MUL">>,
    <<"MUL", "ADD", "MUL">>, <<"MUL", "MUL">> }

CompositeInputs(n) ==
  { [cubes |-> [j \in 1 .. (Len(os) + 1) |-> PoolCube(seed + j, n)], ops |-> os] :
      seed \in 0 .. (PoolSize - 1), os \in SCShapes }

CPInit ==
  /\ \E n \in 1 .. MaxVars :
       \E ci \in CompositeInputs(n) \cup (IF n = 2 THEN {TestComposite} ELSE {}) :
         \E point \in SeqsOf(Field, n) :
           cp = [pc |-> "start",
                 composite |-> Composite_new(ci.cubes, ci.ops),
                 point |-> point,
                 partially_evaluated |-> Composite_new(<<>>, <<>>),
                 result |-> 0,
                 partial_result |-> 0]
  /\ sy = SYIdle /\ tr = TRIdle /\ sc = SCIdle /\ gkr = GKRIdle /\ OthersIdle

\* main_poly.partial_evaluate(&point, 0)
PartialEvaluate ==
  /\ cp.pc = "start"
  /\ cp' = [cp EXCEPT !.pc = "partial",
                      !.partially_evaluated =
                         Composite_partial_evaluate(cp.composite, cp.point, 0)]
  /\ UNCHANGED <<sy, tr, sc, gkr, ml, dp, ms>>

\* main_poly.evaluate(point) and partially_evaluated.evaluate(point[1..])
Evaluate ==
  /\ cp.pc = "partial"
  /\ cp' = [cp EXCEPT !.pc = "done",
                      !.result = Composite_evaluate(cp.composite, SomeAll(cp.point)),
                      !.partial_result =
                         Composite_evaluate(cp.partially_evaluated,
                                            SomeAll(Tail(cp.point)))]
  /\ UNCHANGED <<sy, tr, sc, gkr, ml, dp, ms>>

CPNext == PartialEvaluate \/ Evaluate

SpecComposite == CPInit /\ [][CPNext]_vars

\* C10: partial_evaluate(point, 0) keeps the operator list, leaves every
\* operand with one variable less, and the result evaluated at the rest of
\* the point equals the original evaluated at the whole point; both give 735
\* for (a*b)+c at (2,3).
C10_PartialEvaluateConsistent ==
  cp.pc = "done" =>
    /\ cp.partially_evaluated.ops = cp.composite.ops
    /\ Len(cp.partially_evaluated.polys) = Len(cp.composite.polys)
    /\ \A k \in 1 .. Len(cp.composite.polys) :
         /\ cp.partially_evaluated.polys[k].num_vars = Len(cp.point) - 1
         /\ Len(cp.partially_evaluated.polys[k].coeffs) = Pow2(Len(cp.point) - 1)
    /\ cp.partial_result = cp.result
    /\ (/\ cp.composite = Composite_new(TestComposite.cubes, TestComposite.ops)
        /\ cp.point = <<from(2), from(3)>>)
         => cp.result = from(735) /\ cp.partial_result = from(735)

\* (a*b)+c has been partially evaluated at 2 and then evaluated at 3.
C10_Witness ==
  /\ cp.pc = "done"
  /\ cp.composite = Composite_new(TestComposite.cubes, TestComposite.ops)
  /\ cp.point = <<from(2), from(3)>>
  /\ cp.partial_result = from(735)

(***************************************************************************)
(* Transcript: two sessions, each with a transcript of its own.            *)
(***************************************************************************)
Sessions == {1, 2}
AbsorbData == {<<1>>, <<0, 2>>}
AddedData == {<<2>>}

\* self.hash_function.append(data), self being session s's transcript
\* (here: a hasher shared by all sessions).
absorb_into_shared(hash_functions, s, data) ==
  [t \in DOMAIN hash_functions |-> absorb(hash_functions[t], data)]

absorb_into(hash_functions, s, data) ==
  [hash_functions EXCEPT ![s] = absorb(@, data)]

TRInit ==
  /\ \E k \in 0 .. MaxKey :
       tr = [pc |-> "run", key |-> k,
             hash_function |-> [s \in Sessions |-> Transcript_new],
             log |-> [s \in Sessions |-> <<>>],
             out |-> [s \in Sessions |-> <<>>],
             squeezed_from |-> [s \in Sessions |-> <<>>]]
  /\ sy = SYIdle /\ cp = CPIdle /\ sc = SCIdle /\ gkr = GKRIdle /\ OthersIdle

Absorb(s, data) ==
  /\ tr.pc = "run"
  /\ Len(tr.log[s]) < MaxTranscriptOps
  /\ tr' = [tr EXCEPT !.hash_function = absorb_into(@, s, data),
                      !.log[s] = Append(@, <<"absorb", data>>)]
  /\ UNCHANGED <<sy, cp, sc, gkr, ml, dp, ms>>

Squeeze(s) ==
  /\ tr.pc = "run"
  /\ Len(tr.log[s]) < MaxTranscriptOps
  /\ tr' = [tr EXCEPT !.hash_function[s] = squeeze_state(tr.key, @),
                      !.log[s] = Append(@, <<"squeeze", <<>> >>),
                      !.out[s] = Append(@, squeeze(tr.key, tr.hash_function[s])),
                      !.squeezed_from[s] = Append(@, tr.hash_function[s])]
  /\ UNCHANGED <<sy, cp, sc, gkr, ml, dp, ms>>

AddData(s, data) ==
  /\ tr.pc = "run"
  /\ Len(tr.log[s]) + 1 < MaxTranscriptOps
  /\ LET absorbed == absorb_into(tr.hash_function, s, data_bytes(data))
         r == add_data_to_transcript(tr.key, data, tr.hash_function[s])
     IN tr' = [tr EXCEPT !.hash_function = [absorbed EXCEPT ![s] = r.transcript],
                         !.log[s] = @ \o << <<"absorb", data_bytes(data)>>,
                                            <<"squeeze", <<>> >> >>,
                         !.out[s] = Append(@, r.challenge),
                         !.squeezed_from[s] = Append(@, absorbed[s])]
  /\ UNCHANGED <<sy, cp, sc, gkr, ml, dp, ms>>

TRNext ==
  \E s \in Sessions :
    \/ \E data \in AbsorbData : Absorb(s, data)
    \/ Squeeze(s)
    \/ \E data \in AddedData : AddData(s, data)

SpecTranscript == TRInit /\ [][TRNext]_vars

\* C8: two transcripts created fresh and driven by the same sequence of
\* absorb and squeeze operations with identical byte strings return
\* identical challenge sequences.
C8_Deterministic ==
  tr.pc = "run" =>
    \A s \in Sessions : \A t \in Sessions :
      tr.log[s] = tr.log[t] => tr.out[s] = tr.out[t]

\* Both sessions have absorbed, squeezed, absorbed and squeezed alike.
C8_Witness ==
  /\ tr.pc = "run"
  /\ tr.log[1] = tr.log[2]
  /\ Len(tr.out[1]) >= 2
  /\ \E i \in 1 .. Len(tr.log[1]) : tr.log[1][i][1] = "absorb"
  /\ tr.out[1] = tr.out[2]

\* C7: squeeze reseeds the hash state with the digest it returns, so two
\* consecutive squeezes with no absorb between them are computed from
\* different hash states.
C7_SqueezeReseeds ==
  tr.pc = "run" =>
    \A s \in Sessions :
      \A i \in 1 .. Len(tr.log[s]) - 1 :
        (tr.log[s][i][1] = "squeeze" /\ tr.log[s][i + 1][1] = "squeeze")
          => LET n == Cardinality({j \in 1 .. i : tr.log[s][j][1] = "squeeze"})
             IN tr.squeezed_from[s][n] # tr.squeezed_from[s][n + 1]

(***************************************************************************)
(* Sum-check: a prover, at most one change to its proof, and a verifier.   *)
(***************************************************************************)
\* test_generate_partial_proof_2: a * b + c over two variables
TestSumcheck2 ==
  [cubes |-> << blow_up_right(Poly(FromAll(<<3, 5>>), 1), 1).coeffs,
                FromAll(<<0, 4, 2, 6>>),
                blow_up_left(Poly(FromAll(<<2, 5>>), 1), 1).coeffs >>,
   ops |-> <<"MUL", "ADD">>]

\* test_generate_partial_proof: a * b + c * d over three variables
TestSumcheck3 ==
  [cubes |-> << blow_up_right(Poly(FromAll(<<3, 5>>), 1), 2).coeffs,
                blow_up_right(Poly(FromAll(<<0, 4, 2, 6>>), 2), 1).coeffs,
                blow_up_left(Poly(FromAll(<<2, 5>>), 1), 2).coeffs,
                blow_up_left(Poly(FromAll(<<2, 5>>), 1), 2).coeffs >>,
   ops |-> <<"MUL", "ADD", "MUL">>]

SumcheckInputs(n) ==
  CompositeInputs(n)
  \cup (IF n = 2 THEN {TestSumcheck2} ELSE {})
  \cup (IF n = 3 THEN {TestSumcheck3} ELSE {})

NoProof == [sum |-> 0, round_polys |-> <<>>, challenges |-> <<>>]
NoMutation == [kind |-> "none", round |-> 0, slot |-> 0, delta |-> 0]
NoResult ==
  [status |-> "none", why |-> "", round |-> 0, sum |-> 0, challenges |-> <<>>,
   transcript |-> <<>>]

SCInit ==
  /\ \E k \in 0 .. MaxKey : \E n \in 0 .. MaxVars : \E ci \in SumcheckInputs(n) :
       sc = [pc |-> "start", key |-> k,
             composite |-> Composite_new(ci.cubes, ci.ops),
             honest |-> NoProof, proof |-> NoProof, mutation |-> NoMutation,
             verifier |-> "none", result |-> NoResult]
  /\ sy = SYIdle /\ cp = CPIdle /\ tr = TRIdle /\ gkr = GKRIdle /\ OthersIdle

\* generate_partial_proof(&composite, &mut transcript, &mut round_polys,
\* &mut challenges) with a fresh transcript and empty vectors
GenerateProof ==
  /\ sc.pc = "start"
  /\ LET g == generate_partial_proof(sc.key, sc.composite, Transcript_new, <<>>)
         proof == [sum |-> g.sum, round_polys |-> g.round_polys,
                   challenges |-> g.challenges]
     IN sc' = [sc EXCEPT !.pc = IF g.ok THEN "proved" ELSE "prover_panicked",
                         !.honest = proof, !.proof = proof]
  /\ UNCHANGED <<sy, cp, tr, gkr, ml, dp, ms>>

\* One of e0, e1, e2 of one round is changed.
MutateRound(i, slot, delta) ==
  /\ sc.pc = "proved" /\ sc.mutation.kind = "none"
  /\ i \in 1 .. Len(sc.proof.round_polys)
  /\ sc' = [sc EXCEPT !.proof.round_polys[i][slot] = fadd(@, delta),
                      !.mutation = [kind |-> "round", round |-> i - 1,
                                    slot |-> slot, delta |-> delta]]
  /\ UNCHANGED <<sy, cp, tr, gkr, ml, dp, ms>>

\* The claimed sum is changed.
MutateSum(delta) ==
  /\ sc.pc = "proved" /\ sc.mutation.kind = "none"
  /\ sc' = [sc EXCEPT !.proof.sum = fadd(@, delta),
                      !.mutation = [kind |-> "sum", round |-> 0,
                                    slot |-> 0, delta |-> delta]]
  /\ UNCHANGED <<sy, cp, tr, gkr, ml, dp, ms>>

\* verify_partial_proof(initial_sum, &round_polys, &mut transcript), fresh
\* transcript
Verify ==
  /\ sc.pc = "proved"
  /\ sc' = [sc EXCEPT !.pc = "verified", !.verifier = "verify_partial_proof",
                      !.result = verify_partial_proof(sc.key, sc.proof.sum,
                                   sc.proof.round_polys, Transcript_new)]
  /\ UNCHANGED <<sy, cp, tr, gkr, ml, dp, ms>>

\* verify_partial_proof_2(initial_sum, &polys_2, &mut transcript), fresh
\* transcript
Verify2 ==
  /\ sc.pc = "proved"
  /\ sc' = [sc EXCEPT !.pc = "verified", !.verifier = "verify_partial_proof_2",
                      !.result = verify_partial_proof_2(sc.key, sc.proof.sum,
                                   sc.proof.round_polys, Transcript_new)]
  /\ UNCHANGED <<sy, cp, tr, gkr, ml, dp, ms>>

SCNext ==
  \/ GenerateProof
  \/ \E i \in 1 .. MaxVars : \E slot \in 1 .. 3 : \E delta \in 1 .. (Q - 1) :
       MutateRound(i, slot, delta)
  \/ \E delta \in 1 .. (Q - 1) : MutateSum(delta)
  \/ Verify
  \/ Verify2

SpecSumcheck == SCInit /\ [][SCNext]_vars

\* assert_eq!(sum, composite.evaluate(&challenges...)): the verifier returned
\* and its final sum is the composite at the challenges it returned.
Accepted ==
  /\ sc.result.status = "ok"
  /\ Len(sc.result.challenges) = sc.composite.polys[1].num_vars
  /\ sc.result.sum = Composite_evaluate(sc.composite, SomeAll(sc.result.challenges))

\* The number of operands in the longest product: a bound on the degree of
\* the composite in each variable.
RECURSIVE LongestProduct(_, _, _)
LongestProduct(ops, run, best) ==
  IF ops = <<>> THEN (IF run > best THEN run ELSE best)
  ELSE IF Head(ops) = "MUL" THEN LongestProduct(Tail(ops), run + 1, best)
  ELSE LongestProduct(Tail(ops), 1, IF run > best THEN run ELSE best)

Degree(c) == LongestProduct(c.ops, 1, 1)

\* The sum of the composite over the boolean hypercube.
HypercubeSum(c) ==
  LET n == c.polys[1].num_vars
  IN SumSeq([i \in 1 .. Pow2(n) |->
               Composite_evaluate(c, [j \in 1 .. n |->
                                        Some(from(BitAt(i - 1, n - j)))])])

\* C3: for a composite of n >= 1 variables and degree at most 2 in each, the
\* verifier run on the prover's claimed sum and round polynomials passes
\* every round, returns the n challenges the prover drew and a final sum
\* equal to the composite evaluated at them.
C3_Completeness ==
  (sc.pc = "verified" /\ sc.mutation.kind = "none" /\ Degree(sc.composite) <= 2) =>
    /\ sc.result.status = "ok"
    /\ sc.result.round = sc.composite.polys[1].num_vars
    /\ sc.result.challenges = sc.honest.challenges
    /\ Len(sc.result.challenges) = sc.composite.polys[1].num_vars
    /\ sc.result.sum =
         Composite_evaluate(sc.composite, SomeAll(sc.honest.challenges))

\* The test's composite a * b + c, proved and verified by verify_partial_proof.
C3_Witness ==
  /\ sc.pc = "verified" /\ sc.mutation.kind = "none"
  /\ sc.verifier = "verify_partial_proof"
  /\ sc.composite = Composite_new(TestSumcheck2.cubes, TestSumcheck2.ops)
  /\ Len(sc.result.challenges) = 2
  /\ Accepted

\* C4: the claimed sum the prover returns is e0 + e1 of round 0 and equals
\* the sum of the composite over all 2^n boolean assignments.
C4_ClaimedSum ==
  (sc.pc = "proved" /\ sc.mutation.kind = "none") =>
    /\ sc.honest.sum = fadd(sc.honest.round_polys[1][1], sc.honest.round_polys[1][2])
    /\ sc.honest.sum = HypercubeSum(sc.composite)

\* A proof for a composite of several operands over two variables, the
\* rounds of which have different sums.
C4_Witness ==
  /\ sc.pc = "proved" /\ sc.mutation.kind = "none"
  /\ sc.composite.polys[1].num_vars = 2
  /\ Len(sc.composite.ops) >= 1
  /\ sc.honest.sum # 0
  /\ sc.honest.sum = HypercubeSum(sc.composite)
  /\ sc.honest.sum # fadd(sc.honest.round_polys[2][1], sc.honest.round_polys[2][2])

\* The round polynomial the verifier interpolates in round i (from 0) of the
\* proof it was handed, and of the prover's proof.
GivenRoundPoly(i) == interpolate(points_of(At(sc.proof.round_polys, i)))
HonestRoundSum(i) ==
  fadd(At(sc.honest.round_polys, i)[1], At(sc.honest.round_polys, i)[2])

\* C5 as stated: starting from the prover's proof for a composite of degree
\* at most 2, changing one of e0, e1, e2 of one round, or the claimed sum,
\* makes verification (the verifier, then the comparison of its final sum
\* with the composite at the returned challenges) reject.
C5_MutationRejected ==
  (sc.pc = "verified" /\ sc.mutation.kind # "none" /\ Degree(sc.composite) <= 2)
    => ~Accepted

\* C5 amended: a changed e0, e1 or claimed sum fails the round check of its
\* round; a changed e2 of the last round is accepted exactly when the
\* challenge the verifier derives for that round is 0 or 1; a changed e2 of
\* an earlier round is accepted only if the changed round polynomial at the
\* verifier's challenge takes the value of the prover's next round sum.
C5_MutationRejectedUnlessCollision ==
  (sc.pc = "verified" /\ sc.mutation.kind # "none" /\ Degree(sc.composite) <= 2) =>
    LET n == sc.composite.polys[1].num_vars
        i == sc.mutation.round
    IN /\ (sc.mutation.kind = "sum" \/ sc.mutation.slot \in {1, 2}) =>
            /\ ~Accepted
            /\ sc.result.status = "panic"
            /\ sc.result.round = i
            /\ sc.result.why \in {"Invalid proof",
                                  "Invalid proof for partial sum check"}
       /\ (sc.mutation.kind = "round" /\ sc.mutation.slot = 3 /\ i = n - 1) =>
            /\ sc.result.status = "ok"
            /\ Accepted <=> At(sc.result.challenges, i) \in {0, 1 % Q}
       /\ (sc.mutation.kind = "round" /\ sc.mutation.slot = 3 /\ i < n - 1) =>
            /\ Len(sc.result.challenges) > i
            /\ Accepted =>
                 DensePolynomial_evaluate(GivenRoundPoly(i),
                                          At(sc.result.challenges, i))
                   = HonestRoundSum(i + 1)

\* Each kind of change has been verified: a changed e0 stopped the verifier
\* in its round, and a changed e2 of the last round went through every round
\* check and was told apart only by the final comparison.
C5_Witness ==
  /\ sc.pc = "verified" /\ Degree(sc.composite) = 2
  /\ sc.composite.polys[1].num_vars = 2
  /\ sc.mutation.kind = "round" /\ sc.mutation.slot = 3 /\ sc.mutation.round = 1
  /\ sc.result.status = "ok"
  /\ ~Accepted
  /\ sc.result.challenges[1] = sc.honest.challenges[1]

\* C6: a round whose e0 + e1 differs from the running sum makes
\* verify_partial_proof and verify_partial_proof_2 return a rejecting result;
\* they do not panic.
C6_RejectionIsReturned ==
  sc.pc = "verified" => sc.result.status # "panic"

(***************************************************************************)
(* GKR: a prover, at most one changed input, and a verifier, each side     *)
(* with a transcript of its own.                                           *)
(***************************************************************************)
\* The circuit of test_generate_proof: [ADD(0,1), MUL(2,3)] then [ADD(0,1)].
TestCircuit ==
  [gates |-> << <<Gate("ADD", 0, 1)>>,
                <<Gate("ADD", 0, 1), Gate("MUL", 2, 3)>> >>,
   inputs |-> 4]

GKRCircuits ==
  { TestCircuit,
    [gates |-> << <<Gate("MUL", 0, 1)>> >>, inputs |-> 2],
    [gates |-> << <<Gate("ADD", 0, 1), Gate("MUL", 0, 1)>> >>, inputs |-> 2],
    [gates |-> << <<Gate("ADD", 0, 0), Gate("MUL", 1, 1)>> >>, inputs |-> 2],
    [gates |-> << <<Gate("ADD", 0, 1), Gate("MUL", 0, 1)>>,
                  <<Gate("ADD", 0, 1), Gate("MUL", 2, 3)>> >>, inputs |-> 4] }

\* Input vectors start, start + step, ...: [1, 2, 3, 4] and all zeros are
\* among them.
GKRInputs(n) ==
  { [x \in 1 .. n |-> from(step * x + start)] :
      step \in 0 .. MaxStep, start \in 0 .. MaxStart }

NoVerdict == [result |-> "none", why |-> "", layer |-> 0, drawn |-> <<>>]

GKRInit ==
  /\ \E k \in 0 .. MaxKey : \E c \in GKRCircuits : \E inputs \in GKRInputs(c.inputs) :
       gkr = [pc |-> "start", key |-> k, gates |-> c.gates, inputs |-> inputs,
              prover |-> ProverPanicked("", 0), proof |-> NoGKRProof,
              verifier_inputs |-> inputs, verdict |-> NoVerdict]
  /\ sy = SYIdle /\ cp = CPIdle /\ tr = TRIdle /\ sc = SCIdle /\ OthersIdle

\* generate_proof(&mut circuit, &inputs, &mut transcript), fresh transcript
GenerateGKRProof ==
  /\ gkr.pc = "start"
  /\ LET done(g) ==
           gkr' = [gkr EXCEPT !.pc = IF g.ok THEN "proved" ELSE "prover_panicked",
                              !.prover = [g EXCEPT !.proof = NoGKRProof,
                                                   !.transcript = <<>>],
                              !.proof = g.proof]
     IN done(generate_proof(gkr.key, gkr.gates, gkr.inputs, Transcript_new))
  /\ UNCHANGED <<sy, cp, tr, sc, ml, dp, ms>>

\* The verifier's input vector differs from the prover's in one position.
AlterInput(position, delta) ==
  /\ gkr.pc = "proved" /\ gkr.verifier_inputs = gkr.inputs
  /\ position \in 1 .. Len(gkr.inputs)
  /\ gkr' = [gkr EXCEPT !.verifier_inputs[position] = fadd(@, delta)]
  /\ UNCHANGED <<sy, cp, tr, sc, ml, dp, ms>>

\* A prover that claims an output vector differing from the circuit's in one
\* position: it runs generate_proof's steps with that vector as w_0 (absorbed
\* at gkr.rs 47, returned as gkr_proof.output) and the circuit's own layers
\* below it.
ForgeOutput(position, delta) ==
  /\ gkr.pc = "start"
  /\ position \in 1 .. Len(At(Circuit_evaluate(gkr.gates, gkr.inputs), 0))
  /\ LET claimed == [At(Circuit_evaluate(gkr.gates, gkr.inputs), 0)
                      EXCEPT ![position] = fadd(@, delta)]
         done(g) ==
           gkr' = [gkr EXCEPT !.pc = IF g.ok THEN "forged" ELSE "forger_panicked",
                              !.prover = [g EXCEPT !.proof = NoGKRProof,
                                                   !.transcript = <<>>],
                              !.proof = [g.proof EXCEPT !.output = claimed]]
     IN done(generate_proof_from(gkr.key, gkr.gates,
                                 Circuit_evaluate(gkr.gates, gkr.inputs),
                                 Transcript_new, padded_output(claimed)))
  /\ UNCHANGED <<sy, cp, tr, sc, ml, dp, ms>>

\* verify_proof(&mut circuit, &inputs, &mut transcript, gkr_proof), fresh
\* transcript
VerifyGKRProof ==
  /\ gkr.pc \in {"proved", "forged"}
  /\ gkr' = [gkr EXCEPT !.pc = IF gkr.pc = "proved" THEN "verified"
                                ELSE "forged_verified",
                        !.verdict = verify_proof(gkr.key, gkr.gates,
                                      gkr.verifier_inputs, Transcript_new,
                                      gkr.proof)]
  /\ UNCHANGED <<sy, cp, tr, sc, ml, dp, ms>>

GKRNext ==
  \/ GenerateGKRProof
  \/ \E position \in 1 .. 4 : \E delta \in 1 .. MaxDelta : AlterInput(position, delta)
  \/ \E position \in 1 .. 4 : \E delta \in 1 .. MaxDelta : ForgeOutput(position, delta)
  \/ VerifyGKRProof

SpecGKR == GKRInit /\ [][GKRNext]_vars

\* C1: for every circuit and input vector, generate_proof returns a proof
\* and verify_proof, given that proof, the same circuit and the same inputs,
\* returns true.
C1_Completeness ==
  /\ gkr.pc # "prover_panicked"
  /\ (gkr.pc = "verified" /\ gkr.verifier_inputs = gkr.inputs)
       => gkr.verdict.result = "true"

\* C2: verify_proof given a proof generated for inputs x and an input vector
\* that differs from x in one position returns false.
C2_InputBinding ==
  (gkr.pc = "verified" /\ gkr.verifier_inputs # gkr.inputs)
    => gkr.verdict.result = "false"

\* The value of an infix expression under ordinary precedence: the sum of the
\* products of its maximal MUL-joined runs.
RECURSIVE SumOfProducts(_, _, _, _, _)
SumOfProducts(values, ops, i, sum, prod) ==
  IF i > Len(ops) THEN fadd(sum, prod)
  ELSE IF ops[i] = "MUL"
    THEN SumOfProducts(values, ops, i + 1, sum, fmul(prod, values[i + 1]))
  ELSE SumOfProducts(values, ops, i + 1, fadd(sum, prod), values[i + 1])

InfixValue(values, ops) == SumOfProducts(FromAll(values), ops, 1, 0, from(values[1]))

\* C9: shunting_yard_algo returns the value of the infix expression under
\* ordinary precedence (MUL binds tighter than ADD); it returns 255 for
\* 2*2*3*3*3+3*7*7 and 61 for 2+3*4+5+6*7.
C9_Precedence ==
  sy.pc = "done" =>
    /\ sy.result = InfixValue(sy.values, sy.ops)
    /\ (sy.values = <<2, 2, 3, 3, 3, 3, 7, 7>> => sy.result = from(255))
    /\ (sy.values = <<2, 3, 4, 5, 6, 7>> => sy.result = from(61))

\* 1+2*3 has been reduced to 7, not to (1+2)*3.
C9_Witness ==
  /\ sy.pc = "done"
  /\ sy.values = <<1, 2, 3>>
  /\ sy.ops = <<"ADD", "MUL">>
  /\ sy.result = from(7)
  /\ sy.result # from(9)

(***************************************************************************)
(* Composite::new on well-formed and malformed operand lists.              *)
(***************************************************************************)
\* A hypercube of the given length (0 and lengths that are not powers of two
\* included).
CubeOfLen(len, seed) == [i \in 1 .. len |-> from(seed + i)]

\* Every list of 1..3 hypercubes with lengths up to 2^MaxVars.
HypercubeLists ==
  UNION { { [j \in 1 .. count |-> CubeOfLen(lens[j], j)] :
              lens \in SeqsOf(0 .. Pow2(MaxVars), count) } :
          count \in 1 .. 3 }

CNInit ==
  /\ \E hypercubes \in HypercubeLists :
       \E count \in 0 .. 2 : \E ops \in SeqsOf(OPS, count) :
         cp = [pc |-> "start", hypercubes |-> hypercubes, ops |-> ops,
               composite |-> Composite_new(<<>>, <<>>)]
  /\ sy = SYIdle /\ tr = TRIdle /\ sc = SCIdle /\ gkr = GKRIdle /\ OthersIdle

\* Composite::new(&hypercubes, ops)
ConstructComposite ==
  /\ cp.pc = "start"
  /\ cp' = IF Composite_new_panics(cp.hypercubes, cp.ops)
           THEN [cp EXCEPT !.pc = "panicked"]
           ELSE [cp EXCEPT !.pc = "constructed",
                           !.composite = Composite_new(cp.hypercubes, cp.ops)]
  /\ UNCHANGED <<sy, tr, sc, gkr, ml, dp, ms>>

CNNext == ConstructComposite

SpecCompositeNew == CNInit /\ [][CNNext]_vars

\* C11: Composite::new fails unless there is one operator less than operands,
\* every operand's length is a power of two and all operands have the same
\* length; no Composite with operands of different lengths is constructed.
C11_ConstructionIsFatal ==
  cp.pc = "constructed" =>
    /\ Len(cp.ops) + 1 = Len(cp.hypercubes)
    /\ \A k \in 1 .. Len(cp.hypercubes) :
         /\ Len(cp.hypercubes[k]) = Pow2(cp.composite.polys[k].num_vars)
         /\ Len(cp.composite.polys[k].coeffs) = Len(cp.composite.polys[1].coeffs)

(***************************************************************************)
(* MultivariatePoly: new followed by a sequence of operations.             *)
(***************************************************************************)
MaxMLESteps == 2
MaxBlows == 2

\* MultivariatePoly::new(coeffs, num_vars): the polynomial, or a panic.
MultivariatePoly_new(coeffs, num_vars) ==
  [ok |-> MultivariatePoly_new_ok(coeffs, num_vars),
   poly |-> Poly(coeffs, num_vars)]

\* partial_evaluate: poly.len().ilog2() panics on 0, num_vars - 1 - var_idx
\* on a var_idx that is not below num_vars.
partial_evaluate_panics(poly, var_idx) ==
  Len(poly) = 0 \/ var_idx > ilog2(Len(poly)) - 1

\* get_blow_up_poly: panics when coeffs.len() % 2 != 0.
get_blow_up_poly_panics(p) == Len(p.coeffs) % 2 # 0

\* impl Add / impl Mul: panics unless the numbers of variables agree.
add_panics(a, b) == a.num_vars # b.num_vars

\* Composite::partial_evaluate: value[index], partial_evaluate and
\* x.num_vars - 1 of every operand.
Composite_partial_evaluate_panics(c, value, index) ==
  \/ index >= Len(value)
  \/ \E k \in 1 .. Len(c.polys) :
       \/ c.polys[k].num_vars = 0
       \/ partial_evaluate_panics(c.polys[k].coeffs, index)
       \/ ~MultivariatePoly_new_ok(partial_evaluate(c.polys[k].coeffs, index, 0),
                                   c.polys[k].num_vars - 1)

NoOperation ==
  [kind |-> "new", source |-> Poly(<<>>, 0), index |-> 0, value |-> 0,
   blows |-> 0, before |-> <<>>, after |-> <<>>]

MLPanicked(last) ==
  [pc |-> "panicked", poly |-> Poly(<<>>, 0), steps |-> 0, last |-> last]

\* The state after an operation that returned MultivariatePoly::new(...).
MLReturned(made, steps, last) ==
  IF made.ok THEN [pc |-> "ready", poly |-> made.poly, steps |-> steps, last |-> last]
  ELSE MLPanicked(last)

\* The polynomials of the pool with n variables.
PoolPolys(n) == { Poly(PoolCube(seed, n), n) : seed \in 0 .. (PoolSize - 1) }

\* The scalars operations are called with: neither 0 nor 1.
Scalars == {from(2), from(3)}

\* The value lists solve is called with: entries None or Some.
SolveValues ==
  UNION { SeqsOf({None, Some(from(2))}, len) : len \in 0 .. (MaxVars + 2) }

\* The right-hand operands of + and *: the pool's polynomials.
Operands == UNION { PoolPolys(n) : n \in 0 .. (MaxVars + 1) }

\* MultivariatePoly::new(coeffs, num_vars) on the pool's coefficient lists,
\* with the right and with a wrong number of variables.
MLInit ==
  /\ \E n \in 0 .. MaxVars : \E num_vars \in 0 .. MaxVars :
       \E seed \in 0 .. (PoolSize - 1) :
         ml = MLReturned(MultivariatePoly_new(PoolCube(seed, n), num_vars), 0,
                         NoOperation)
  /\ sy = SYIdle /\ cp = CPIdle /\ tr = TRIdle /\ sc = SCIdle /\ gkr = GKRIdle
  /\ dp = DPIdle /\ ms = MSIdle

MLCanStep == ml.pc = "ready" /\ ml.steps < MaxMLESteps

\* The operation just performed; partial_evaluate and the blow-ups keep the
\* polynomial they were applied to.
MLOperation(kind, index, value, blows) ==
  [NoOperation EXCEPT !.kind = kind, !.index = index, !.value = value,
                      !.blows = blows,
                      !.source = IF kind \in {"partial_evaluate", "blow_up_right",
                                              "blow_up_left"}
                                 THEN ml.poly ELSE Poly(<<>>, 0)]

\* MultivariatePoly::partial_evaluate(&poly.coeffs, var_idx, val): the result
\* is a Vec<F>, kept here with the number of variables it stands for.
MLPartialEvaluate(var_idx, val) ==
  /\ MLCanStep
  /\ ml' = IF partial_evaluate_panics(ml.poly.coeffs, var_idx)
           THEN MLPanicked(MLOperation("partial_evaluate", var_idx, val, 0))
           ELSE [pc |-> "coefficients",
                 poly |-> Poly(partial_evaluate(ml.poly.coeffs, var_idx, val),
                               ml.poly.num_vars - 1),
                 steps |-> ml.steps + 1,
                 last |-> MLOperation("partial_evaluate", var_idx, val, 0)]
  /\ UNCHANGED <<sy, cp, tr, sc, gkr, dp, ms>>

\* poly.solve(&values)
MLSolve(values) ==
  /\ MLCanStep
  /\ \/ Len(values) <= ml.poly.num_vars
     \/ Len(values) = ml.poly.num_vars + 1 /\ \A x \in 1 .. Len(values) : values[x].some
  /\ ml' = IF solve_panics(ml.poly, values)
           THEN MLPanicked(MLOperation("solve", 0, 0, 0))
           ELSE [pc |-> "ready", poly |-> solve(ml.poly, values),
                 steps |-> ml.steps + 1, last |-> MLOperation("solve", 0, 0, 0)]
  /\ UNCHANGED <<sy, cp, tr, sc, gkr, dp, ms>>

\* poly.blow_up_right(blows)
MLBlowUpRight(blows) ==
  /\ MLCanStep /\ ml.poly.num_vars + blows <= MaxVars + 1
  /\ ml' = IF get_blow_up_poly_panics(ml.poly)
           THEN MLPanicked(MLOperation("blow_up_right", 0, 0, blows))
           ELSE MLReturned(
                  MultivariatePoly_new(blow_up_right(ml.poly, blows).coeffs,
                                       ml.poly.num_vars + blows),
                  ml.steps + 1, MLOperation("blow_up_right", 0, 0, blows))
  /\ UNCHANGED <<sy, cp, tr, sc, gkr, dp, ms>>

\* poly.blow_up_left(blows)
MLBlowUpLeft(blows) ==
  /\ MLCanStep /\ ml.poly.num_vars + blows <= MaxVars + 1
  /\ ml' = IF get_blow_up_poly_panics(ml.poly)
           THEN MLPanicked(MLOperation("blow_up_left", 0, 0, blows))
           ELSE MLReturned(
                  MultivariatePoly_new(blow_up_left(ml.poly, blows).coeffs,
                                       ml.poly.num_vars + blows),
                  ml.steps + 1, MLOperation("blow_up_left", 0, 0, blows))
  /\ UNCHANGED <<sy, cp, tr, sc, gkr, dp, ms>>

\* poly.scalar_mul(value)
MLScalarMul(value) ==
  /\ MLCanStep
  /\ ml' = MLReturned(
             MultivariatePoly_new(scalar_mul(ml.poly, value).coeffs, ml.poly.num_vars),
             ml.steps + 1, MLOperation("scalar_mul", 0, value, 0))
  /\ UNCHANGED <<sy, cp, tr, sc, gkr, dp, ms>>

\* poly + other
MLAdd(other) ==
  /\ MLCanStep
  /\ other.num_vars = ml.poly.num_vars \/ other = Poly(PoolCube(0, 0), 0)
  /\ ml' = IF add_panics(ml.poly, other)
           THEN MLPanicked(MLOperation("add", 0, 0, 0))
           ELSE MLReturned(
                  MultivariatePoly_new(MultivariatePoly_add(ml.poly, other).coeffs,
                                       ml.poly.num_vars),
                  ml.steps + 1, MLOperation("add", 0, 0, 0))
  /\ UNCHANGED <<sy, cp, tr, sc, gkr, dp, ms>>

\* poly * other
MLMul(other) ==
  /\ MLCanStep
  /\ other.num_vars = ml.poly.num_vars \/ other = Poly(PoolCube(0, 0), 0)
  /\ ml' = IF add_panics(ml.poly, other)
           THEN MLPanicked(MLOperation("mul", 0, 0, 0))
           ELSE MLReturned(
                  MultivariatePoly_new(MultivariatePoly_mul(ml.poly, other).coeffs,
                                       ml.poly.num_vars),
                  ml.steps + 1, MLOperation("mul", 0, 0, 0))
  /\ UNCHANGED <<sy, cp, tr, sc, gkr, dp, ms>>

\* Composite::new(&vec![poly.coeffs, other.coeffs], vec![ADD])
\*   .partial_evaluate(&value, index): the result is a Composite.
MLCompositePartialEvaluate(other, value, index) ==
  /\ MLCanStep /\ other = Poly(PoolCube(1, ml.poly.num_vars), ml.poly.num_vars)
  /\ Len(value) = ml.poly.num_vars
  /\ ~Composite_new_panics(<<ml.poly.coeffs, other.coeffs>>, <<"ADD">>)
  /\ LET composite == Composite_new(<<ml.poly.coeffs, other.coeffs>>, <<"ADD">>)
         done(last, after) ==
           ml' = [pc |-> "composite", poly |-> after.polys[1],
                  steps |-> ml.steps + 1,
                  last |-> [last EXCEPT !.before = composite.polys,
                                        !.after = after.polys]]
     IN IF Composite_partial_evaluate_panics(composite, value, index)
        THEN ml' = MLPanicked(MLOperation("composite_partial_evaluate", index, 0, 0))
        ELSE done(MLOperation("composite_partial_evaluate", index, At(value, index), 0),
                  Composite_partial_evaluate(composite, value, index))
  /\ UNCHANGED <<sy, cp, tr, sc, gkr, dp, ms>>

MLNext ==
  \/ \E var_idx \in 0 .. (MaxVars + 1) : \E val \in Scalars :
       MLPartialEvaluate(var_idx, val)
  \/ \E values \in SolveValues : MLSolve(values)
  \/ \E blows \in 1 .. MaxBlows : MLBlowUpRight(blows)
  \/ \E blows \in 1 .. MaxBlows : MLBlowUpLeft(blows)
  \/ \E value \in Scalars : MLScalarMul(value)
  \/ \E other \in Operands : MLAdd(other)
  \/ \E other \in Operands : MLMul(other)
  \/ \E other \in Operands : \E val \in Scalars : \E index \in 0 .. MaxVars :
       MLCompositePartialEvaluate(other, [x \in 1 .. other.num_vars |-> val], index)

SpecMLE == MLInit /\ [][MLNext]_vars

\* The point `rest` with the value v inserted as coordinate j.
InsertAt(rest, j, v) == SubSeq(rest, 1, j) \o <<v>> \o SubSeq(rest, j + 1, Len(rest))

\* C12: the MLE obtained by partial_evaluate(P, j, v), evaluated at the
\* remaining coordinates, equals P.evaluate at the full point whose
\* coordinate j is v.
C12_PartialEvaluateConsistent ==
  ml.pc = "coefficients" =>
    \A rest \in SeqsOf(Field, ml.poly.num_vars) :
      MultivariatePoly_evaluate(ml.poly, rest)
        = MultivariatePoly_evaluate(ml.last.source,
                                    InsertAt(rest, ml.last.index, ml.last.value))

\* C13: blow_up_right(k) evaluated at (p..., q...) and blow_up_left(k)
\* evaluated at (q..., p...) equal w.evaluate(p) for every MLE w and every
\* k >= 1, and both results have num_vars + k variables.
C13_BlowUpCorrect ==
  /\ ml.last.kind \in {"blow_up_right", "blow_up_left"} => ml.pc = "ready"
  /\ (ml.pc = "ready" /\ ml.last.kind \in {"blow_up_right", "blow_up_left"}) =>
       /\ ml.poly.num_vars = ml.last.source.num_vars + ml.last.blows
       /\ \A p \in SeqsOf(Field, ml.last.source.num_vars) :
            \A q \in SeqsOf(Field, ml.last.blows) :
              MultivariatePoly_evaluate(ml.poly,
                  IF ml.last.kind = "blow_up_right" THEN p \o q ELSE q \o p)
                = MultivariatePoly_evaluate(ml.last.source, p)

\* C14: every MultivariatePoly produced by new, solve, blow_up_right,
\* blow_up_left, scalar_mul, add and mul has len(coeffs) = 2^num_vars, and
\* Composite::partial_evaluate keeps this for every operand while reducing
\* each operand's num_vars by exactly 1.
C14_SizeInvariant ==
  /\ ml.pc = "ready" => Len(ml.poly.coeffs) = Pow2(ml.poly.num_vars)
  /\ ml.pc = "composite" =>
       \A k \in 1 .. Len(ml.last.after) :
         /\ Len(ml.last.after[k].coeffs) = Pow2(ml.last.after[k].num_vars)
         /\ ml.last.after[k].num_vars = ml.last.before[k].num_vars - 1

C14_Witness ==
  /\ ml.pc = "composite" /\ ml.steps = MaxMLESteps
  /\ Len(ml.last.after) = 2 /\ ml.poly.num_vars >= 1
  /\ ml.last.before[1].num_vars > MaxVars


(***************************************************************************)
(* get_add_and_muls on its own: the wiring polynomials of every layer.     *)
(***************************************************************************)
MaxWire == 3

WireGates(n) ==
  { Gate(op, l, r) : op \in {"ADD", "MUL"}, l \in 0 .. (n - 1), r \in 0 .. (n - 1) }

\* Layers of one or two gates over n values of the layer below.
WireLayers(n) ==
  { <<g>> : g \in WireGates(n) }
    \cup { <<g, h>> : g \in WireGates(n), h \in WireGates(n) }

\* Circuits of one layer and of two layers (output layer first).  Every
\* index of the last layer is below the number of inputs, every index of
\* the layer above it below the number of gates of the last layer.
WiringInit ==
  /\ \E n \in 1 .. (MaxWire + 1) : \E last \in WireLayers(n) :
       \E top \in {<<>>} \cup { <<g>> : g \in WireGates(Len(last)) } :
         gkr = [pc |-> "wiring_start",
                gates |-> (IF top = <<>> THEN <<>> ELSE <<top>>) \o <<last>>,
                add_and_muls |-> <<>>]
  /\ sy = SYIdle /\ cp = CPIdle /\ tr = TRIdle /\ sc = SCIdle /\ OthersIdle

GetAddAndMuls ==
  /\ gkr.pc = "wiring_start"
  /\ gkr' = IF get_add_and_muls_panics(gkr.gates)
            THEN [gkr EXCEPT !.pc = "wiring_panicked"]
            ELSE [gkr EXCEPT !.pc = "wired",
                             !.add_and_muls = get_add_and_muls(gkr.gates)]
  /\ UNCHANGED <<sy, cp, tr, sc, ml, dp, ms>>

WiringNext == GetAddAndMuls

SpecWiring == WiringInit /\ [][WiringNext]_vars

\* The gate at position z of the layer is (op, b, c).
IsGate(layer_gates, op, z, b, c) ==
  z < Len(layer_gates) /\ layer_gates[z + 1] = Gate(op, b, c)

\* coeffs is the indicator of the op-gates of the layer under the encoding
\* z | b | c with b and c in fields of w bits each.
Encodes(coeffs, layer_gates, op, w) ==
  /\ \A j \in 1 .. Len(layer_gates) :
       /\ layer_gates[j].left_input < Pow2(w)
       /\ layer_gates[j].right_input < Pow2(w)
  /\ Len(layer_gates) * Pow2(2 * w) <= Len(coeffs)
  /\ \A pos \in 0 .. (Len(coeffs) - 1) :
       coeffs[pos + 1] =
         IF IsGate(layer_gates, op, pos \div Pow2(2 * w),
                   (pos \div Pow2(w)) % Pow2(w), pos % Pow2(w))
         THEN 1 % Q ELSE 0

\* C15: get_add_and_muls returns, for every layer of every circuit, add_i
\* and mul_i that are 1 exactly at the positions encoding the (z, b, c)
\* triples of the layer's ADD (resp. MUL) gates, z in the highest bits, then
\* b, then c, in fields wide enough for every index of the layer.
C15_WiringPredicates ==
  /\ gkr.pc # "wiring_panicked"
  /\ gkr.pc = "wired" =>
       \A i \in 1 .. Len(gkr.gates) : \E w \in 1 .. (MaxWire + 2) :
         /\ Encodes(gkr.add_and_muls[i].add.coeffs, gkr.gates[i], "ADD", w)
         /\ Encodes(gkr.add_and_muls[i].mul.coeffs, gkr.gates[i], "MUL", w)


(***************************************************************************)
(* apply_alpha_beta on its own.                                            *)
(***************************************************************************)
MaxChallenges == 4

\* test_apply_alpha_beta.
TestAlphaBeta ==
  [alpha |-> from(2), beta |-> from(3), challenges |-> <<from(2), from(3)>>,
   poly |-> Poly(FromAll(<<0, 4, 3, 7, 2, 6, 5, 9>>), 3)]

\* no_of_variables - no_of_challenges is a subtraction of usize.
apply_alpha_beta_panics(challenges, former_op_poly) ==
  Len(challenges) \div 2 > ilog2(Len(former_op_poly.coeffs))

AlphaBetaInit ==
  /\ \E t \in {TestAlphaBeta} \cup
              { [alpha |-> a, beta |-> b, challenges |-> cs,
                 poly |-> Poly(PoolCube(seed, n), n)] :
                  a \in Scalars, b \in Scalars,
                  cs \in UNION { SeqsOf(Scalars, len) : len \in 0 .. MaxChallenges },
                  seed \in 0 .. (PoolSize - 1), n \in 1 .. (MaxVars + 1) } :
       gkr = [pc |-> "fold_start", alpha |-> t.alpha, beta |-> t.beta,
              challenges |-> t.challenges, poly |-> t.poly,
              folded |-> Poly(<<>>, 0)]
  /\ sy = SYIdle /\ cp = CPIdle /\ tr = TRIdle /\ sc = SCIdle /\ OthersIdle

ApplyAlphaBeta ==
  /\ gkr.pc = "fold_start"
  /\ gkr' = IF apply_alpha_beta_panics(gkr.challenges, gkr.poly)
            THEN [gkr EXCEPT !.pc = "fold_panicked"]
            ELSE [gkr EXCEPT !.pc = "folded",
                             !.folded = apply_alpha_beta(gkr.alpha, gkr.beta,
                                                         gkr.challenges, gkr.poly)]
  /\ UNCHANGED <<sy, cp, tr, sc, ml, dp, ms>>

AlphaBetaNext == ApplyAlphaBeta

SpecAlphaBeta == AlphaBetaInit /\ [][AlphaBetaNext]_vars

\* The table with its highest-order variable fixed to v.
FixHighest(coeffs, v) ==
  [i \in 1 .. (Len(coeffs) \div 2) |->
     fadd(coeffs[i], fmul(v, fsub(coeffs[i + Len(coeffs) \div 2], coeffs[i])))]

\* The table with its leading variables fixed to the values, the first value
\* to the highest-order variable.
RECURSIVE FixLeading(_, _)
FixLeading(coeffs, values) ==
  IF values = <<>> THEN coeffs
  ELSE FixLeading(FixHighest(coeffs, Head(values)), Tail(values))

\* C16: apply_alpha_beta(alpha, beta, challenges, P) is alpha * P_b +
\* beta * P_c, P_b (P_c) being P with its leading, highest-order variables
\* fixed to the first (second) half of the challenges and the others free.
C16_AlphaBetaFolding ==
  gkr.pc = "folded" =>
    LET m == Len(gkr.challenges) \div 2
        P_b == FixLeading(gkr.poly.coeffs, SubSeq(gkr.challenges, 1, m))
        P_c == FixLeading(gkr.poly.coeffs, SubSeq(gkr.challenges, m + 1, 2 * m))
    IN /\ gkr.folded.num_vars = gkr.poly.num_vars - m
       /\ gkr.folded.coeffs =
            [i \in 1 .. Len(P_b) |->
               fadd(fmul(gkr.alpha, P_b[i]), fmul(gkr.beta, P_c[i]))]


(***************************************************************************)
(* DensePolynomial::interpolate followed by evaluate.                      *)
(***************************************************************************)
MaxPoints == 3

\* The y-coordinates of the interpolation tests.
YValues == {from(0), from(1), from(4)}

InterpolateInit ==
  /\ \E n \in 0 .. MaxPoints :
       \E xs \in SeqsOf(0 .. MaxValue, n) : \E ys \in SeqsOf(YValues, n) :
         dp = [pc |-> "interpolate_start",
               points |-> [i \in 1 .. n |-> <<from(xs[i]), ys[i]>>],
               coefficients |-> <<>>]
  /\ sy = SYIdle /\ cp = CPIdle /\ tr = TRIdle /\ sc = SCIdle /\ gkr = GKRIdle
  /\ ml = MLIdle /\ ms = MSIdle

Interpolate ==
  /\ dp.pc = "interpolate_start"
  /\ dp' = IF interpolate_panics(dp.points)
           THEN [dp EXCEPT !.pc = "interpolate_panicked"]
           ELSE [dp EXCEPT !.pc = "interpolated",
                           !.coefficients = interpolate(dp.points)]
  /\ UNCHANGED <<sy, cp, tr, sc, gkr, ml, ms>>

InterpolateNext == Interpolate

SpecInterpolate == InterpolateInit /\ [][InterpolateNext]_vars

DistinctX(points) ==
  \A i \in 1 .. Len(points) : \A j \in 1 .. Len(points) :
    points[i][1] = points[j][1] => i = j

\* C17: for points with pairwise distinct x-coordinates interpolate returns
\* a polynomial of degree less than the number of points (the zero
\* polynomial for none) whose evaluate(x_i) is y_i for every point.
C17_InterpolateRoundTrip ==
  DistinctX(dp.points) =>
    /\ dp.pc # "interpolate_panicked"
    /\ dp.pc = "interpolated" =>
         /\ Len(dp.coefficients) <= Len(dp.points) \/ dp.coefficients = <<0>>
         /\ \A i \in 1 .. Len(dp.points) :
              DensePolynomial_evaluate(dp.coefficients, dp.points[i][1])
                = dp.points[i][2]

\* Three points at 0, 1, 2 interpolated to a polynomial of degree 2.
C17_Witness ==
  /\ dp.pc = "interpolated"
  /\ Len(dp.points) = 3
  /\ \A i \in 1 .. 3 : dp.points[i][1] = from(i - 1)
  /\ Len(dp.coefficients) = 3


(***************************************************************************)
(* The sumcheck crate's binary (main.rs): Prover and Verifier over its own *)
(* MultivariatePoly (monomial coefficients) and Transcript.                *)
(***************************************************************************)
\* multilinear.rs (sumcheck crate) evaluate: coeffs[i] times the product of
\* the point[j] whose bit j is set in i.
RECURSIVE main_evaluate_term(_, _, _, _, _)
main_evaluate_term(term, i, j, num_vars, point) ==
  IF j >= num_vars THEN term
  ELSE main_evaluate_term(
         IF BitAt(i, j) = 1 THEN fmul(term, At(point, j)) ELSE term,
         i, j + 1, num_vars, point)

main_evaluate(p, point) ==
  SumSeq([i1 \in 1 .. Len(p.coeffs) |->
            main_evaluate_term(p.coeffs[i1], i1 - 1, 0, p.num_vars, point)])

\* The point of the boolean hypercube whose coordinate j is bit j of i.
BooleanPoint(i, num_vars) ==
  [j1 \in 1 .. num_vars |-> IF BitAt(i, j1 - 1) = 1 THEN 1 % Q ELSE 0]

main_sum_over_boolean_hypercube(p) ==
  SumSeq([i1 \in 1 .. Pow2(p.num_vars) |->
            main_evaluate(p, BooleanPoint(i1 - 1, p.num_vars))])

\* evaluate_at_round: the first `round` coordinates are the challenges,
\* coordinate `round` is x and the remaining ones run over the hypercube.
main_evaluate_at_round(p, round, partial_evaluation, x) ==
  LET remaining_vars == p.num_vars - round - 1
  IN SumSeq([i1 \in 1 .. Pow2(remaining_vars) |->
               main_evaluate(p, SubSeq(partial_evaluation, 1, round) \o <<x>>
                                  \o BooleanPoint(i1 - 1, remaining_vars))])

\* The round polynomial with eval_1 as its coefficient of x.
generate_round_polynomial_raw(p, round, partial_evaluation) ==
  << main_evaluate_at_round(p, round, partial_evaluation, 0),
     main_evaluate_at_round(p, round, partial_evaluation, 1 % Q) >>
\* Prover::generate_round_polynomial: [eval_0, eval_1 - eval_0], built
\* without DensePolynomial::new.
generate_round_polynomial(p, round, partial_evaluation) ==
  << main_evaluate_at_round(p, round, partial_evaluation, 0),
     fsub(main_evaluate_at_round(p, round, partial_evaluation, 1 % Q),
          main_evaluate_at_round(p, round, partial_evaluation, 0)) >>

\* DensePolynomial::degree
degree(coefficients) == IF coefficients = <<>> THEN 0 ELSE Len(coefficients) - 1

\* Transcript::sample_challenge (sumcheck crate): finalize_reset, then the
\* digest is fed to the fresh hasher.
sample_challenge(k, hasher) ==
  [result_hash |-> generate_hash(k, hasher), hasher |-> generate_hash(k, hasher)]

\* Transcript::sample_field_element
sample_field_element(k, hasher) ==
  [challenge |-> from_be_bytes_mod_order(sample_challenge(k, hasher).result_hash),
   hasher |-> sample_challenge(k, hasher).hasher]

SumCheckProof(sum, round_polynomials, challenges, final_evaluation) ==
  [claimed_sum |-> sum, round_polynomials |-> round_polynomials,
   challenges |-> challenges, final_evaluation |-> final_evaluation]

\* Prover::generate_proof, the loop over the rounds.
RECURSIVE generate_proof_rounds(_, _, _, _, _, _)
generate_proof_rounds(k, p, round, hasher, round_polynomials, challenges) ==
  IF round >= p.num_vars
  THEN SumCheckProof(main_sum_over_boolean_hypercube(p), round_polynomials,
                     challenges, main_evaluate(p, challenges))
  ELSE LET next(round_poly) ==
             LET sampled == sample_field_element(k, absorb(hasher, data_bytes(round_poly)))
             IN generate_proof_rounds(k, p, round + 1, sampled.hasher,
                                      Append(round_polynomials, round_poly),
                                      Append(challenges, sampled.challenge))
       IN next(generate_round_polynomial(p, round, challenges))

\* The transcript after the coefficients and the claimed sum are appended.
initial_transcript(p, sum) ==
  absorb(absorb(Transcript_new, data_bytes(p.coeffs)), to_bytes_be(sum))

Prover_generate_proof(k, p) ==
  generate_proof_rounds(k, p, 0,
                        initial_transcript(p, main_sum_over_boolean_hypercube(p)),
                        <<>>, <<>>)

\* Verifier::verify_proof, the loop over the round polynomials.
RECURSIVE verify_proof_rounds(_, _, _, _, _, _, _)
verify_proof_rounds(k, proof, p, i, hasher, current_sum, challenges) ==
  IF i >= Len(proof.round_polynomials)
  THEN proof.final_evaluation = main_evaluate(p, challenges)
  ELSE LET round_poly == At(proof.round_polynomials, i)
       IN IF degree(round_poly) > 1 THEN FALSE
          ELSE IF fadd(DensePolynomial_evaluate(round_poly, 0),
                       DensePolynomial_evaluate(round_poly, 1 % Q)) # current_sum
          THEN FALSE
          ELSE LET next(sampled) ==
                     verify_proof_rounds(k, proof, p, i + 1, sampled.hasher,
                                         DensePolynomial_evaluate(round_poly,
                                                                  sampled.challenge),
                                         Append(challenges, sampled.challenge))
               IN next(sample_field_element(k, absorb(hasher, data_bytes(round_poly))))

Verifier_verify_proof(k, proof, p) ==
  IF Len(proof.round_polynomials) # p.num_vars THEN FALSE
  ELSE verify_proof_rounds(k, proof, p, 0, initial_transcript(p, proof.claimed_sum),
                           proof.claimed_sum, <<>>)

\* test_sumcheck_protocol / test_sumcheck_failure and test_sumcheck.
TestMainPolys ==
  { Poly(FromAll(<<0, 1, 1, 1>>), 2),
    Poly(FromAll(<<0, 0, 0, 3, 0, 0, 2, 5>>), 3) }

NoSumCheckProof == SumCheckProof(0, <<>>, <<>>, 0)

MSInit ==
  /\ \E k \in 0 .. MaxKey :
       \E p \in TestMainPolys \cup
                { Poly(PoolCube(seed, n), n) :
                    seed \in 0 .. (PoolSize - 1), n \in 0 .. MaxVars } :
         ms = [pc |-> "start", k |-> k, polynomial |-> p, proof |-> NoSumCheckProof,
               altered |-> FALSE, verdict |-> FALSE]
  /\ sy = SYIdle /\ cp = CPIdle /\ tr = TRIdle /\ sc = SCIdle /\ gkr = GKRIdle
  /\ ml = MLIdle /\ dp = DPIdle

\* let proof = Prover::new(polynomial.clone()).generate_proof()
MSGenerateProof ==
  /\ ms.pc = "start"
  /\ ms' = [ms EXCEPT !.pc = "proved",
                      !.proof = Prover_generate_proof(ms.k, ms.polynomial)]
  /\ UNCHANGED <<sy, cp, tr, sc, gkr, ml, dp>>

\* invalid_proof.claimed_sum += delta, delta not zero
MSAlterClaimedSum(delta) ==
  /\ ms.pc = "proved" /\ ~ms.altered
  /\ delta % Q # 0
  /\ ms' = [ms EXCEPT !.altered = TRUE,
                      !.proof.claimed_sum = fadd(ms.proof.claimed_sum, from(delta))]
  /\ UNCHANGED <<sy, cp, tr, sc, gkr, ml, dp>>

\* A prover that claims the sum plus `error`: each round it sends the round
\* polynomial of generate_round_polynomial with the current error added to
\* its coefficient of x, so that g(0) + g(1) is the value the verifier
\* expects, and carries the error times the challenge to the next round; the
\* transcript calls and final_evaluation are those of Prover::generate_proof.
RECURSIVE forge_proof_rounds(_, _, _, _, _, _, _, _)
forge_proof_rounds(k, p, round, hasher, round_polynomials, challenges, error, sum) ==
  IF round >= p.num_vars
  THEN SumCheckProof(sum, round_polynomials, challenges, main_evaluate(p, challenges))
  ELSE LET next(round_poly) ==
             LET sampled == sample_field_element(k, absorb(hasher, data_bytes(round_poly)))
             IN forge_proof_rounds(k, p, round + 1, sampled.hasher,
                                   Append(round_polynomials, round_poly),
                                   Append(challenges, sampled.challenge),
                                   fmul(error, sampled.challenge), sum)
           shifted(honest) == <<honest[1], fadd(honest[2], error)>>
       IN next(shifted(generate_round_polynomial(p, round, challenges)))

\* A proof of claimed_sum + delta, delta not zero, for a polynomial of one or
\* more variables.
MSForgeProof(delta) ==
  /\ ms.pc = "start" /\ ms.polynomial.num_vars >= 1
  /\ delta % Q # 0
  /\ ms' = [ms EXCEPT !.pc = "forged",
                      !.proof = forge_proof_rounds(ms.k, ms.polynomial, 0,
                        initial_transcript(ms.polynomial,
                          fadd(main_sum_over_boolean_hypercube(ms.polynomial), from(delta))),
                        <<>>, <<>>, from(delta),
                        fadd(main_sum_over_boolean_hypercube(ms.polynomial), from(delta)))]
  /\ UNCHANGED <<sy, cp, tr, sc, gkr, ml, dp>>

\* verifier.verify_proof(&proof, &polynomial)
MSVerifyProof ==
  /\ ms.pc \in {"proved", "forged"}
  /\ ms' = [ms EXCEPT !.pc = IF ms.pc = "proved" THEN "verified" ELSE "forged_verified",
                      !.verdict = Verifier_verify_proof(ms.k, ms.proof, ms.polynomial)]
  /\ UNCHANGED <<sy, cp, tr, sc, gkr, ml, dp>>

MSNext ==
  \/ MSGenerateProof
  \/ \E delta \in 1 .. MaxDelta : MSAlterClaimedSum(delta)
  \/ \E delta \in 1 .. MaxDelta : MSForgeProof(delta)
  \/ MSVerifyProof

SpecMainSumcheck == MSInit /\ [][MSNext]_vars

\* C18: the verifier accepts the prover's proof of every polynomial that
\* MultivariatePoly::new accepts.
C18_MainCompleteness ==
  (ms.pc = "verified" /\ ~ms.altered) => ms.verdict = TRUE

\* An honest proof of a polynomial of two or more variables was accepted.
C18_Witness ==
  /\ ms.pc = "verified" /\ ~ms.altered
  /\ ms.polynomial.num_vars >= 2
  /\ Len(ms.proof.round_polynomials) = ms.polynomial.num_vars
  /\ ms.verdict = TRUE

\* C19: an honest proof whose claimed_sum is replaced by a different value
\* is rejected, for every polynomial.
C19_WrongSumRejected ==
  (ms.pc = "verified" /\ ms.altered) => ms.verdict = FALSE


(***************************************************************************)
(* The rounds of generate_partial_proof, one against the next.              *)
(***************************************************************************)
\* The polynomial through (0, e0), (1, e1), (2, e2) of round i (from 0) of
\* the prover's proof, evaluated at x.
HonestRoundPolyAt(i, x) ==
  DensePolynomial_evaluate(interpolate(points_of(At(sc.honest.round_polys, i))), x)

\* C20: for a composite of degree at most 2 in each variable, e0 + e1 of
\* every round i >= 1 of generate_partial_proof is the polynomial through
\* (0, e0), (1, e1), (2, e2) of round i - 1 at the challenge of round i - 1,
\* and the verifier's check of e0 + e1 against its running sum passes in
\* every round of the prover's proof.
C20_RoundInvariant ==
  (sc.mutation.kind = "none" /\ Degree(sc.composite) <= 2) =>
    /\ sc.pc \in {"proved", "verified"} =>
         \A i \in 1 .. (Len(sc.honest.round_polys) - 1) :
           HonestRoundSum(i) = HonestRoundPolyAt(i - 1, At(sc.honest.challenges, i - 1))
    /\ sc.pc = "verified" =>
         /\ sc.result.status = "ok"
         /\ sc.result.round = Len(sc.honest.round_polys)

\* A verified proof of two rounds for a composite of degree 2 whose first
\* challenge is neither 0 nor 1.
C20_Witness ==
  /\ sc.pc = "verified" /\ sc.mutation.kind = "none"
  /\ Degree(sc.composite) = 2
  /\ Len(sc.honest.round_polys) = 2
  /\ At(sc.honest.challenges, 0) \notin {0, 1 % Q}
  /\ HonestRoundSum(1) = HonestRoundPolyAt(0, At(sc.honest.challenges, 0))
  /\ HonestRoundSum(1) # HonestRoundSum(0)


(***************************************************************************)
(* The round records of generate_partial_proof against the composite.      *)
(***************************************************************************)
\* g(x) of round i (from 0): the sum, over the boolean assignments of the
\* later variables, of the composite at (r_0 .. r_{i-1}, x, assignment).
RoundSumAt(i, x) ==
  LET n == sc.composite.polys[1].num_vars
      later == n - i - 1
  IN SumSeq([a \in 1 .. Pow2(later) |->
               Composite_evaluate(sc.composite,
                 SomeAll(SubSeq(sc.honest.challenges, 1, i) \o <<x>>
                           \o [j \in 1 .. later |-> from(BitAt(a - 1, later - j))]))])

\* C21: the record of round i of generate_partial_proof is (g(0), g(1), g(2))
\* for the g of that round, the earlier variables being fixed to the earlier
\* challenges in the order they were drawn.
C21_RoundRecord ==
  (sc.pc \in {"proved", "verified"} /\ sc.mutation.kind = "none") =>
    /\ Len(sc.honest.round_polys) = sc.composite.polys[1].num_vars
    /\ Len(sc.honest.challenges) = sc.composite.polys[1].num_vars
    /\ \A i \in 0 .. (Len(sc.honest.round_polys) - 1) :
         At(sc.honest.round_polys, i)
           = <<RoundSumAt(i, 0), RoundSumAt(i, 1 % Q), RoundSumAt(i, from(2))>>

\* Two rounds for a composite of several operands: the second record depends
\* on a first challenge that is neither 0 nor 1 and is not a line.
C21_Witness ==
  /\ sc.pc = "proved" /\ sc.mutation.kind = "none"
  /\ Len(sc.honest.round_polys) = 2 /\ Len(sc.composite.ops) >= 1
  /\ At(sc.honest.challenges, 0) \notin {0, 1 % Q}
  /\ At(sc.honest.round_polys, 1) = <<RoundSumAt(1, 0), RoundSumAt(1, 1 % Q),
                                      RoundSumAt(1, from(2))>>
  /\ At(sc.honest.round_polys, 1)[3]
       # fsub(fmul(from(2), At(sc.honest.round_polys, 1)[2]),
              At(sc.honest.round_polys, 1)[1])


(***************************************************************************)
(* GKR: what the two sides feed to the transcript.                         *)
(***************************************************************************)
\* The tuple absorbed for a round record: the running sum e0 + e1, then the
\* record (sumcheck.rs 48-50 for the prover, 105-107 for the verifier).
AbsorbedTuple(record) == <<fadd(At(record, 0), At(record, 1))>> \o record

\* C22: for every round of every layer, the record verify_proof hands to
\* the sum-check has the three values the prover recorded, so the verifier
\* absorbs the tuple (e0 + e1, e0, e1, e2) the prover absorbed and
\* interpolates through three points, whatever the values are.
C22_SameRoundTuple ==
  gkr.pc \in {"proved", "verified"} =>
    \A i \in 1 .. Len(gkr.proof.round_polys) :
      \A r \in 1 .. Len(gkr.proof.round_polys[i]) :
        /\ Len(rebuilt_round_polys(gkr.proof.round_polys[i])[r]) = 3
        /\ AbsorbedTuple(rebuilt_round_polys(gkr.proof.round_polys[i])[r])
             = AbsorbedTuple(gkr.proof.round_polys[i][r])


(***************************************************************************)
(* GKR: the initial challenges of the two sides for one output vector.     *)
(***************************************************************************)
MaxOutputs == 4

NoInitial == [done |-> FALSE, panicked |-> FALSE, challenges |-> <<>>, log |-> <<>>]

InitialInit ==
  /\ \E k \in 0 .. MaxKey : \E n \in 1 .. MaxOutputs : \E output \in GKRInputs(n) :
       gkr = [pc |-> "initial", key |-> k, output |-> output,
              prover |-> NoInitial, verifier |-> NoInitial]
  /\ sy = SYIdle /\ cp = CPIdle /\ tr = TRIdle /\ sc = SCIdle /\ OthersIdle

\* generate_proof up to its first layer: gkr.rs 38-51, circuit.layers[0]
\* being the output vector.
ProverInitialChallenges ==
  /\ gkr.pc = "initial" /\ ~gkr.prover.done
  /\ gkr' = [gkr EXCEPT !.prover =
       IF ~MultivariatePoly_new_ok(padded_output(gkr.output),
                                   ceil_log2(Len(gkr.output)))
       THEN [NoInitial EXCEPT !.done = TRUE, !.panicked = TRUE]
       ELSE LET made == initial_challenges_prover(gkr.key, padded_output(gkr.output),
                                                  Transcript_new)
            IN [done |-> TRUE, panicked |-> FALSE,
                challenges |-> made.challenges, log |-> made.log]]
  /\ UNCHANGED <<sy, cp, tr, sc, ml, dp, ms>>

\* verify_proof up to its first layer: gkr.rs 123-132, gkr_proof.output
\* being the output vector.
VerifierInitialChallenges ==
  /\ gkr.pc = "initial" /\ ~gkr.verifier.done
  /\ gkr' = [gkr EXCEPT !.verifier =
       IF ~MultivariatePoly_new_ok(padded_output(gkr.output),
                                   ceil_log2(Len(padded_output(gkr.output))))
       THEN [NoInitial EXCEPT !.done = TRUE, !.panicked = TRUE]
       ELSE LET made == initial_challenges_verifier(gkr.key, padded_output(gkr.output),
                                                    Transcript_new)
            IN [done |-> TRUE, panicked |-> FALSE,
                challenges |-> made.challenges, log |-> made.log]]
  /\ UNCHANGED <<sy, cp, tr, sc, ml, dp, ms>>

InitialNext == ProverInitialChallenges \/ VerifierInitialChallenges

SpecInitialChallenges == InitialInit /\ [][InitialNext]_vars

\* C23: for every output vector of 2^m values (m >= 0) generate_proof and
\* verify_proof perform the same absorb and squeeze operations before the
\* first layer and obtain the same initial challenges, one per output
\* variable.
C23_InitialChallengesAgree ==
  (/\ gkr.pc = "initial" /\ gkr.prover.done /\ gkr.verifier.done
   /\ Len(gkr.output) = Pow2(ceil_log2(Len(gkr.output)))) =>
    /\ ~gkr.prover.panicked /\ ~gkr.verifier.panicked
    /\ gkr.prover.log = gkr.verifier.log
    /\ gkr.prover.challenges = gkr.verifier.challenges
    /\ Len(gkr.prover.challenges) = ceil_log2(Len(padded_output(gkr.output)))


(***************************************************************************)
(* GKR: the oracle evaluations of a layer against its sum-check point.     *)
(***************************************************************************)
\* gkr.rs 56-63: w_plus and w_mul of layer i, from the next layer's values.
w_i_plus_1_of(i) ==
  Poly(At(Circuit_evaluate(gkr.gates, gkr.inputs), i + 1),
       ceil_log2(Len(At(Circuit_evaluate(gkr.gates, gkr.inputs), i + 1))))

w_plus_of(i) ==
  MultivariatePoly_add(
    blow_up_right(w_i_plus_1_of(i), next_pow_of_2(Len(w_i_plus_1_of(i).coeffs))),
    blow_up_left(w_i_plus_1_of(i), next_pow_of_2(Len(w_i_plus_1_of(i).coeffs))))

w_mul_of(i) ==
  MultivariatePoly_mul(
    blow_up_right(w_i_plus_1_of(i), next_pow_of_2(Len(w_i_plus_1_of(i).coeffs))),
    blow_up_left(w_i_plus_1_of(i), next_pow_of_2(Len(w_i_plus_1_of(i).coeffs))))

\* C24: for every layer of a returned proof, w_plus at the layer's sum-check
\* challenge vector, bound in the sum-check's order (leading variable
\* first), equals w_b_eval + w_c_eval, and w_mul there equals
\* w_b_eval * w_c_eval.
C24_OracleEvaluations ==
  (gkr.pc \in {"proved", "verified"}) =>
    \A i \in 0 .. (Len(gkr.proof.evaluations) - 1) :
      /\ evaluate_partial(w_plus_of(i), At(gkr.prover.points, i))
           = fadd(At(gkr.proof.evaluations, i)[1], At(gkr.proof.evaluations, i)[2])
      /\ evaluate_partial(w_mul_of(i), At(gkr.prover.points, i))
           = fmul(At(gkr.proof.evaluations, i)[1], At(gkr.proof.evaluations, i)[2])


(***************************************************************************)
(* GKR: the shape of the returned proof.                                   *)
(***************************************************************************)
\* The number of variables of layer i's Composite (those of w_plus).
composite_vars_of(i) == ceil_log2(Len(w_plus_of(i).coeffs))

\* C25: the proof generate_proof returns has one claimed sum, one list of
\* round records and one evaluation pair per gate layer, entry i belonging
\* to layer i (output layer first); every record has three values, layer i
\* has as many records as its Composite has variables, and output is the
\* circuit's layer-0 value vector.
C25_ProofShape ==
  (gkr.pc \in {"proved", "verified"}) =>
    /\ Len(gkr.proof.claimed_sums) = Len(gkr.gates)
    /\ Len(gkr.proof.round_polys) = Len(gkr.gates)
    /\ Len(gkr.proof.evaluations) = Len(gkr.gates)
    /\ gkr.proof.output = At(Circuit_evaluate(gkr.gates, gkr.inputs), 0)
    /\ \A i \in 0 .. (Len(gkr.gates) - 1) :
         /\ Len(At(gkr.proof.round_polys, i)) = composite_vars_of(i)
         /\ \A r \in 1 .. Len(At(gkr.proof.round_polys, i)) :
              Len(At(gkr.proof.round_polys, i)[r]) = 3
         /\ At(gkr.proof.claimed_sums, i)
              = fadd(At(gkr.proof.round_polys, i)[1][1],
                     At(gkr.proof.round_polys, i)[1][2])
         /\ Len(At(gkr.prover.points, i)) = composite_vars_of(i)
         /\ At(gkr.proof.evaluations, i)
              = << At(solve(w_i_plus_1_of(i),
                            SomeAll(take(At(gkr.prover.points, i),
                                         composite_vars_of(i) \div 2))).coeffs, 0),
                   At(solve(w_i_plus_1_of(i),
                            SomeAll(skip(At(gkr.prover.points, i),
                                         composite_vars_of(i) \div 2))).coeffs, 0) >>

C25_Witness ==
  /\ gkr.pc = "proved"
  /\ Len(gkr.proof.claimed_sums) = 2
  /\ Len(gkr.proof.round_polys[1]) = 2
  /\ Len(gkr.proof.round_polys[2]) = 4
  /\ Len(gkr.proof.output) = 2


(***************************************************************************)
(* Composite::reduce on composites of equal and of different lengths.      *)
(***************************************************************************)
ReduceInit ==
  /\ \E hypercubes \in HypercubeLists \cup {TestComposite.cubes} :
       \E ops \in SeqsOf(OPS, Len(hypercubes) - 1) :
         /\ ~Composite_new_panics(hypercubes, ops)
         /\ cp = [pc |-> "constructed",
                  composite |-> Composite_new(hypercubes, ops),
                  reduced |-> Poly(<<>>, 0)]
  /\ sy = SYIdle /\ tr = TRIdle /\ sc = SCIdle /\ gkr = GKRIdle /\ OthersIdle

\* composite.reduce()
Reduce ==
  /\ cp.pc = "constructed"
  /\ cp' = IF reduce_panics(cp.composite)
           THEN [cp EXCEPT !.pc = "reduce_panicked"]
           ELSE [cp EXCEPT !.pc = "reduced", !.reduced = reduce(cp.composite)]
  /\ UNCHANGED <<sy, tr, sc, gkr, ml, dp, ms>>

ReduceNext == Reduce

SpecReduce == ReduceInit /\ [][ReduceNext]_vars

\* The k-th values of the operands.
ValuesAt(c, k) == [j \in 1 .. Len(c.polys) |-> c.polys[j].coeffs[k]]

\* C26: reduce() of a Composite whose operands have equal length returns one
\* MLE whose k-th value is the value of the operands' k-th values under
\* ordinary precedence (MUL before ADD), [0,15,6,66] for
\* [0,3,2,5]*[0,4,0,11]+[0,3,6,11]; it fails exactly when the operands'
\* lengths differ.
C26_ReducePointwise ==
  /\ cp.pc = "reduced" =>
       /\ \A j \in 1 .. Len(cp.composite.polys) :
            Len(cp.composite.polys[j].coeffs) = Len(cp.composite.polys[1].coeffs)
       /\ Len(cp.reduced.coeffs) = Len(cp.composite.polys[1].coeffs)
       /\ \A k \in 1 .. Len(cp.reduced.coeffs) :
            cp.reduced.coeffs[k]
              = SumOfProducts(ValuesAt(cp.composite, k), cp.composite.ops, 1, 0,
                              cp.composite.polys[1].coeffs[k])
       /\ (cp.composite = Composite_new(TestComposite.cubes, TestComposite.ops)
             => cp.reduced.coeffs = FromAll(<<0, 15, 6, 66>>))
  /\ cp.pc = "reduce_panicked" =>
       \E j \in 1 .. Len(cp.composite.polys) :
         Len(cp.composite.polys[j].coeffs) # Len(cp.composite.polys[1].coeffs)

\* The test's composite a * b + c has been reduced.
C26_Witness ==
  /\ cp.pc = "reduced"
  /\ cp.composite = Composite_new(TestComposite.cubes, TestComposite.ops)
  /\ cp.reduced.coeffs = FromAll(<<0, 15, 6, 66>>)
  /\ cp.reduced.coeffs # FromAll(<<0, 21, 12, 80>>)


(***************************************************************************)
(* MultivariatePoly (multilinear crate): evaluate, evaluate_partial and    *)
(* sum_over_boolean_hypercube on one polynomial and one point.             *)
(***************************************************************************)
\* multilinear.rs 99-121: the sum of evaluate over the points whose
\* coordinate j is bit j of i.
sum_over_boolean_hypercube(p) ==
  SumSeq([i1 \in 1 .. Shl(1, p.num_vars) |->
            MultivariatePoly_evaluate(p,
              [j1 \in 1 .. p.num_vars |->
                 IF BitAt(i1 - 1, j1 - 1) = 1 THEN 1 % Q ELSE 0])])

\* The polynomials of the tests test_evaluate_4y_7xy and test_evaluate.
TestPolys == { Poly(FromAll(<<0, 4, 0, 11>>), 2), Poly(FromAll(<<1, 2, 3, 4>>), 2) }

EvalInit ==
  /\ \E n \in 0 .. MaxVars :
       \E p \in PoolPolys(n) \cup (IF n = 2 THEN TestPolys ELSE {}) :
         \E point \in SeqsOf(Field, n) :
           ml = [pc |-> "ready", poly |-> p, point |-> point,
                 evaluated |-> None, partially |-> None, summed |-> None]
  /\ sy = SYIdle /\ cp = CPIdle /\ tr = TRIdle /\ sc = SCIdle /\ gkr = GKRIdle
  /\ dp = DPIdle /\ ms = MSIdle

\* poly.evaluate(&point)
MLEvaluate ==
  /\ ml.pc = "ready" /\ ~ml.evaluated.some
  /\ ml' = [ml EXCEPT !.evaluated = Some(MultivariatePoly_evaluate(ml.poly, ml.point))]
  /\ UNCHANGED <<sy, cp, tr, sc, gkr, dp, ms>>

\* poly.evaluate_partial(&point)
MLEvaluatePartial ==
  /\ ml.pc = "ready" /\ ~ml.partially.some
  /\ ml' = [ml EXCEPT !.partially = Some(evaluate_partial(ml.poly, ml.point))]
  /\ UNCHANGED <<sy, cp, tr, sc, gkr, dp, ms>>

\* poly.sum_over_boolean_hypercube()
MLSumOverBooleanHypercube ==
  /\ ml.pc = "ready" /\ ~ml.summed.some
  /\ ml' = [ml EXCEPT !.summed = Some(sum_over_boolean_hypercube(ml.poly))]
  /\ UNCHANGED <<sy, cp, tr, sc, gkr, dp, ms>>

EvalNext == MLEvaluate \/ MLEvaluatePartial \/ MLSumOverBooleanHypercube

SpecEvaluate == EvalInit /\ [][EvalNext]_vars

\* C27: for every MultivariatePoly P and every point of num_vars
\* coordinates, P.evaluate(point) equals P.evaluate_partial(point); both are
\* 54 for the values [0,4,0,11] at the point (2,3).
C27_EvaluatorsAgree ==
  (ml.pc = "ready" /\ ml.evaluated.some /\ ml.partially.some) =>
    /\ ml.evaluated.v = ml.partially.v
    /\ (ml.poly = Poly(FromAll(<<0, 4, 0, 11>>), 2) /\ ml.point = FromAll(<<2, 3>>))
         => (ml.evaluated.v = from(54) /\ ml.partially.v = from(54))

\* The value at `point` of the polynomial whose monomial coefficients are
\* coeffs: coeffs[i] times the product of the coordinates whose bit is set
\* in i.
RECURSIVE MonomialProduct(_, _, _)
MonomialProduct(i, j, point) ==
  IF j >= Len(point) THEN 1 % Q
  ELSE fmul(IF BitAt(i, j) = 1 THEN At(point, j) ELSE 1 % Q,
            MonomialProduct(i, j + 1, point))

MonomialValue(coeffs, point) ==
  SumSeq([i1 \in 1 .. Len(coeffs) |->
            fmul(coeffs[i1], MonomialProduct(i1 - 1, 0, point))])

\* C28: MultivariatePoly reads coeffs[i] as the coefficient of the monomial
\* of the variables whose bits are set in i: evaluate returns the value of
\* that polynomial and sum_over_boolean_hypercube its sum over the boolean
\* points; for coeffs [1,2,3,4] evaluate at (1,1) returns 10 and
\* sum_over_boolean_hypercube returns 18.
C28_MonomialCoefficients ==
  /\ (ml.pc = "ready" /\ ml.evaluated.some) =>
       /\ ml.evaluated.v = MonomialValue(ml.poly.coeffs, ml.point)
       /\ (ml.poly = Poly(FromAll(<<1, 2, 3, 4>>), 2) /\ ml.point = FromAll(<<1, 1>>))
            => ml.evaluated.v = from(10)
  /\ (ml.pc = "ready" /\ ml.summed.some) =>
       /\ ml.summed.v
            = SumSeq([i1 \in 1 .. Pow2(ml.poly.num_vars) |->
                        MonomialValue(ml.poly.coeffs,
                          [j1 \in 1 .. ml.poly.num_vars |-> BitAt(i1 - 1, j1 - 1)])])
       /\ ml.poly = Poly(FromAll(<<1, 2, 3, 4>>), 2) => ml.summed.v = from(18)


(***************************************************************************)
(* GKR: the links between the output, the claimed sums and the oracle      *)
(* evaluations of an accepted proof.                                       *)
(***************************************************************************)
\* The multilinear extension of proof.output at the verifier's initial
\* challenges (gkr.rs 123-132).
output_claim ==
  MultivariatePoly_evaluate(
    Poly(padded_output(gkr.proof.output),
         ceil_log2(Len(padded_output(gkr.proof.output)))),
    initial_challenges_verifier(gkr.key, padded_output(gkr.proof.output),
                                Transcript_new).challenges)

\* C29: verify_proof returns true only if claimed_sums[0] equals the
\* multilinear extension of proof.output at the initial challenges and every
\* later claimed_sums[i] equals alpha * w_b_eval + beta * w_c_eval of layer
\* i - 1, alpha and beta being the verifier's for layer i.
C29_ClaimsChained ==
  (gkr.pc \in {"verified", "forged_verified"} /\ gkr.verdict.result = "true") =>
    /\ At(gkr.proof.claimed_sums, 0) = output_claim
    /\ \A i \in 1 .. (Len(gkr.gates) - 1) :
         At(gkr.proof.claimed_sums, i)
           = fadd(fmul(At(gkr.verdict.drawn, i)[1], At(gkr.proof.evaluations, i - 1)[1]),
                  fmul(At(gkr.verdict.drawn, i)[2], At(gkr.proof.evaluations, i - 1)[2]))


(***************************************************************************)
(* Sum-check over one multilinear polynomial: the last round against the   *)
(* polynomial.                                                             *)
(***************************************************************************)
\* main.rs 162-166: the challenges verify_proof draws for the proof's round
\* polynomials.
RECURSIVE verifier_challenges(_, _, _, _, _)
verifier_challenges(k, proof, i, hasher, challenges) ==
  IF i >= Len(proof.round_polynomials) THEN challenges
  ELSE LET next(sampled) ==
             verifier_challenges(k, proof, i + 1, sampled.hasher,
                                 Append(challenges, sampled.challenge))
       IN next(sample_field_element(k,
                 absorb(hasher, data_bytes(At(proof.round_polynomials, i)))))

\* The last round polynomial at the verifier's last challenge.
LastRoundValue ==
  LET challenges == verifier_challenges(ms.k, ms.proof, 0,
                      initial_transcript(ms.polynomial, ms.proof.claimed_sum), <<>>)
  IN DensePolynomial_evaluate(
       At(ms.proof.round_polynomials, Len(ms.proof.round_polynomials) - 1),
       At(challenges, Len(challenges) - 1))

\* C30: Verifier::verify_proof returns true only if the last round
\* polynomial at the last challenge equals polynomial.evaluate(challenges).
C30_FinalLink ==
  (/\ ms.pc \in {"verified", "forged_verified"}
   /\ ms.verdict = TRUE
   /\ Len(ms.proof.round_polynomials) >= 1) =>
    LastRoundValue
      = main_evaluate(ms.polynomial,
          verifier_challenges(ms.k, ms.proof, 0,
            initial_transcript(ms.polynomial, ms.proof.claimed_sum), <<>>))

=============================================================================
